---- MODULE Spec2Model ----
(***************************************************************************)
(* Model of the tennis rating engine of src/elo.py (EloModel) and of its   *)
(* callers.                                                                *)
(*                                                                         *)
(* Data representation                                                     *)
(*   - A Python str is the sequence of its characters, each one a string   *)
(*     (see Latin1Chars), so that strip, lower, split, len and strptime    *)
(*     work on the characters.                                             *)
(*   - Python None is the value None below; a CSV column that the header   *)
(*     does not have is Absent (dict.get then returns its default).        *)
(*   - A datetime produced by strptime('%Y%m%d') is its proleptic          *)
(*     Gregorian day number (date.toordinal()); the time of day is 00:00.  *)
(*   - A float rating is a fixed-point integer in units of 1/RScale rating *)
(*     point; a probability is an integer in units of 1/PScale. Products   *)
(*     and quotients round to nearest, symmetrically in the sign, as IEEE  *)
(*     arithmetic does.                                                    *)
(*   - A value of random.random() is a pair: the value cut to six decimals *)
(*     (an integer in units of 1/PScale), and the outcome of its           *)
(*     comparison with a probability for the case that the two precisions  *)
(*     do not decide it (see DrawBelow). Both outcomes are inputs.         *)
(***************************************************************************)
EXTENDS Integers, Sequences, FiniteSets, TLC

(***************************************************************************)
(* Python values                                                           *)
(***************************************************************************)
None == <<"<None>">>
Absent == <<"<absent>">>

ValueError == "ValueError"
AttributeError == "AttributeError"
TypeError == "TypeError"
NoError == "ok"

\* F(v), with v evaluated once: the assignment of a value to a local variable
Bind(v, F(_)) == CHOOSE r \in { F(x) : x \in { v } } : TRUE

(***************************************************************************)
(* str methods                                                             *)
(***************************************************************************)
\* A character is a string: the character itself where it is in Latin-1
\* and a string of this module can hold it, and else the name of its code
\* point, "U+" and its four to six hexadecimal digits.
\* Latin1Chars[n + 1] is the character of code point n.
Latin1Chars ==
    << "U+0000", "U+0001", "U+0002", "U+0003", "U+0004", "U+0005", "U+0006",
       "U+0007", "U+0008", "\t", "\n", "", "\f", "\r", "U+000E", "U+000F",
       "U+0010", "U+0011", "U+0012", "U+0013", "U+0014", "U+0015", "U+0016",
       "U+0017", "U+0018", "U+0019", "U+001A", "U+001B", "", "", "", "",
       " ", "!", "\"", "#", "$", "%", "&", "'", "(", ")", "*", "+", ",", "-",
       ".", "/", "0", "1", "2", "3", "4", "5", "6", "7", "8", "9", ":", ";",
       "<", "=", ">", "?", "@", "A", "B", "C", "D", "E", "F", "G", "H", "I",
       "J", "K", "L", "M", "N", "O", "P", "Q", "R", "S", "T", "U", "V", "W",
       "X", "Y", "Z", "[", "\\", "]", "^", "_", "U+0060", "a", "b", "c", "d",
       "e", "f", "g", "h", "i", "j", "k", "l", "m", "n", "o", "p", "q", "r",
       "s", "t", "u", "v", "w", "x", "y", "z", "{", "|", "}", "~", "U+007F",
       "U+0080", "U+0081", "U+0082", "U+0083", "U+0084", "", "U+0086",
       "U+0087", "U+0088", "U+0089", "U+008A", "U+008B", "U+008C", "U+008D",
       "U+008E", "U+008F", "U+0090", "U+0091", "U+0092", "U+0093", "U+0094",
       "U+0095", "U+0096", "U+0097", "U+0098", "U+0099", "U+009A", "U+009B",
       "U+009C", "U+009D", "U+009E", "U+009F", " ", "¡", "¢", "£", "¤", "¥",
       "¦", "§", "¨", "©", "ª", "«", "¬", "­", "®", "¯", "°", "±", "²", "³",
       "´", "µ", "¶", "·", "¸", "¹", "º", "»", "¼", "½", "¾", "¿", "À", "Á",
       "Â", "Ã", "Ä", "Å", "Æ", "Ç", "È", "É", "Ê", "Ë", "Ì", "Í", "Î", "Ï",
       "Ð", "Ñ", "Ò", "Ó", "Ô", "Õ", "Ö", "×", "Ø", "Ù", "Ú", "Û", "Ü", "Ý",
       "Þ", "ß", "à", "á", "â", "ã", "ä", "å", "æ", "ç", "è", "é", "ê", "ë",
       "ì", "í", "î", "ï", "ð", "ñ", "ò", "ó", "ô", "õ", "ö", "÷", "ø", "ù",
       "ú", "û", "ü", "ý", "þ", "ÿ" >>

Latin1Ord ==
    [c \in {Latin1Chars[i] : i \in 1..Len(Latin1Chars)} |->
        (CHOOSE i \in 1..Len(Latin1Chars) : Latin1Chars[i] = c) - 1]

HexDigits ==
    << "0", "1", "2", "3", "4", "5", "6", "7", "8", "9", "A", "B", "C", "D", "E", "F" >>

RECURSIVE HexValue(_, _)
HexValue(h, acc) ==
    IF h = "" THEN acc
    ELSE HexValue(Tail(h),
                  16 * acc + (CHOOSE i \in 1..16 : HexDigits[i] = Head(h)) - 1)

RECURSIVE Hex(_, _)
Hex(n, width) ==
    IF n = 0 /\ width <= 0 THEN ""
    ELSE Hex(n \div 16, width - 1) \o HexDigits[(n % 16) + 1]

\* ord(c) and chr(n)
Ord(c) == IF Len(c) = 1 THEN Latin1Ord[c]
          ELSE HexValue(SubSeq(c, 3, Len(c)), 0)

Chr(n) == IF n + 1 \in DOMAIN Latin1Chars THEN Latin1Chars[n + 1]
          ELSE "U+" \o Hex(n, 4)

\* str.isspace(): tab, line feed, vertical tab, form feed, carriage return,
\* the separators 1C..1F, space, next line (85) and no-break space (A0)
Latin1Spaces ==
    { " ", "\t", "\n", "\r", "", "\f", "", "", "", "", "", " " }

\* the white space of Unicode outside Latin-1
WideSpaces ==
    { "U+1680", "U+2000", "U+2001", "U+2002", "U+2003", "U+2004",
      "U+2005", "U+2006", "U+2007", "U+2008", "U+2009", "U+200A",
      "U+2028", "U+2029", "U+202F", "U+205F", "U+3000" }

Spaces == Latin1Spaces \cup WideSpaces

IsSpace(c) == c \in Spaces

RECURSIVE lstrip(_)
lstrip(s) ==
    IF s = <<>> THEN <<>>
    ELSE IF IsSpace(Head(s)) THEN lstrip(Tail(s)) ELSE s

RECURSIVE rstrip(_)
rstrip(s) ==
    IF s = <<>> THEN <<>>
    ELSE IF IsSpace(s[Len(s)]) THEN rstrip(SubSeq(s, 1, Len(s) - 1)) ELSE s

strip(s) == rstrip(lstrip(s))

\* str.lower(). A row << first, last, step, delta >> of LowerRuns says
\* that the code points first, first + step, ..., last have the lower-case
\* letter delta code points further on; every other code point is kept,
\* but for two: capital I with dot above (130) becomes i and a combining
\* dot above, and capital sigma (3A3) becomes the final sigma (3C2) at the
\* end of a word and the small sigma (3C3) elsewhere.
LowerRuns ==
    { << 65, 90, 1, 32 >>, << 192, 214, 1, 32 >>, << 216, 222, 1, 32 >>,
       << 256, 302, 2, 1 >>, << 306, 310, 2, 1 >>, << 313, 327, 2, 1 >>,
       << 330, 374, 2, 1 >>, << 376, 376, 1, -121 >>, << 377, 381, 2, 1 >>,
       << 385, 385, 1, 210 >>, << 386, 388, 2, 1 >>, << 390, 390, 1, 206 >>,
       << 391, 391, 1, 1 >>, << 393, 394, 1, 205 >>, << 395, 395, 1, 1 >>,
       << 398, 398, 1, 79 >>, << 399, 399, 1, 202 >>, << 400, 400, 1, 203 >>,
       << 401, 401, 1, 1 >>, << 403, 403, 1, 205 >>, << 404, 404, 1, 207 >>,
       << 406, 406, 1, 211 >>, << 407, 407, 1, 209 >>, << 408, 408, 1, 1 >>,
       << 412, 412, 1, 211 >>, << 413, 413, 1, 213 >>,
       << 415, 415, 1, 214 >>, << 416, 420, 2, 1 >>, << 422, 422, 1, 218 >>,
       << 423, 423, 1, 1 >>, << 425, 425, 1, 218 >>, << 428, 428, 1, 1 >>,
       << 430, 430, 1, 218 >>, << 431, 431, 1, 1 >>, << 433, 434, 1, 217 >>,
       << 435, 437, 2, 1 >>, << 439, 439, 1, 219 >>, << 440, 440, 1, 1 >>,
       << 444, 444, 1, 1 >>, << 452, 452, 1, 2 >>, << 453, 453, 1, 1 >>,
       << 455, 455, 1, 2 >>, << 456, 456, 1, 1 >>, << 458, 458, 1, 2 >>,
       << 459, 475, 2, 1 >>, << 478, 494, 2, 1 >>, << 497, 497, 1, 2 >>,
       << 498, 500, 2, 1 >>, << 502, 502, 1, -97 >>, << 503, 503, 1, -56 >>,
       << 504, 542, 2, 1 >>, << 544, 544, 1, -130 >>, << 546, 562, 2, 1 >>,
       << 570, 570, 1, 10795 >>, << 571, 571, 1, 1 >>,
       << 573, 573, 1, -163 >>, << 574, 574, 1, 10792 >>,
       << 577, 577, 1, 1 >>, << 579, 579, 1, -195 >>, << 580, 580, 1, 69 >>,
       << 581, 581, 1, 71 >>, << 582, 590, 2, 1 >>, << 880, 882, 2, 1 >>,
       << 886, 886, 1, 1 >>, << 895, 895, 1, 116 >>, << 902, 902, 1, 38 >>,
       << 904, 906, 1, 37 >>, << 908, 908, 1, 64 >>, << 910, 911, 1, 63 >>,
       << 913, 929, 1, 32 >>, << 931, 939, 1, 32 >>, << 975, 975, 1, 8 >>,
       << 984, 1006, 2, 1 >>, << 1012, 1012, 1, -60 >>,
       << 1015, 1015, 1, 1 >>, << 1017, 1017, 1, -7 >>,
       << 1018, 1018, 1, 1 >>, << 1021, 1023, 1, -130 >>,
       << 1024, 1039, 1, 80 >>, << 1040, 1071, 1, 32 >>,
       << 1120, 1152, 2, 1 >>, << 1162, 1214, 2, 1 >>,
       << 1216, 1216, 1, 15 >>, << 1217, 1229, 2, 1 >>,
       << 1232, 1326, 2, 1 >>, << 1329, 1366, 1, 48 >>,
       << 4256, 4293, 1, 7264 >>, << 4295, 4295, 1, 7264 >>,
       << 4301, 4301, 1, 7264 >>, << 5024, 5103, 1, 38864 >>,
       << 5104, 5109, 1, 8 >>, << 7312, 7354, 1, -3008 >>,
       << 7357, 7359, 1, -3008 >>, << 7680, 7828, 2, 1 >>,
       << 7838, 7838, 1, -7615 >>, << 7840, 7934, 2, 1 >>,
       << 7944, 7951, 1, -8 >>, << 7960, 7965, 1, -8 >>,
       << 7976, 7983, 1, -8 >>, << 7992, 7999, 1, -8 >>,
       << 8008, 8013, 1, -8 >>, << 8025, 8031, 2, -8 >>,
       << 8040, 8047, 1, -8 >>, << 8072, 8079, 1, -8 >>,
       << 8088, 8095, 1, -8 >>, << 8104, 8111, 1, -8 >>,
       << 8120, 8121, 1, -8 >>, << 8122, 8123, 1, -74 >>,
       << 8124, 8124, 1, -9 >>, << 8136, 8139, 1, -86 >>,
       << 8140, 8140, 1, -9 >>, << 8152, 8153, 1, -8 >>,
       << 8154, 8155, 1, -100 >>, << 8168, 8169, 1, -8 >>,
       << 8170, 8171, 1, -112 >>, << 8172, 8172, 1, -7 >>,
       << 8184, 8185, 1, -128 >>, << 8186, 8187, 1, -126 >>,
       << 8188, 8188, 1, -9 >>, << 8486, 8486, 1, -7517 >>,
       << 8490, 8490, 1, -8383 >>, << 8491, 8491, 1, -8262 >>,
       << 8498, 8498, 1, 28 >>, << 8544, 8559, 1, 16 >>,
       << 8579, 8579, 1, 1 >>, << 9398, 9423, 1, 26 >>,
       << 11264, 11311, 1, 48 >>, << 11360, 11360, 1, 1 >>,
       << 11362, 11362, 1, -10743 >>, << 11363, 11363, 1, -3814 >>,
       << 11364, 11364, 1, -10727 >>, << 11367, 11371, 2, 1 >>,
       << 11373, 11373, 1, -10780 >>, << 11374, 11374, 1, -10749 >>,
       << 11375, 11375, 1, -10783 >>, << 11376, 11376, 1, -10782 >>,
       << 11378, 11378, 1, 1 >>, << 11381, 11381, 1, 1 >>,
       << 11390, 11391, 1, -10815 >>, << 11392, 11490, 2, 1 >>,
       << 11499, 11501, 2, 1 >>, << 11506, 11506, 1, 1 >>,
       << 42560, 42604, 2, 1 >>, << 42624, 42650, 2, 1 >>,
       << 42786, 42798, 2, 1 >>, << 42802, 42862, 2, 1 >>,
       << 42873, 42875, 2, 1 >>, << 42877, 42877, 1, -35332 >>,
       << 42878, 42886, 2, 1 >>, << 42891, 42891, 1, 1 >>,
       << 42893, 42893, 1, -42280 >>, << 42896, 42898, 2, 1 >>,
       << 42902, 42920, 2, 1 >>, << 42922, 42922, 1, -42308 >>,
       << 42923, 42923, 1, -42319 >>, << 42924, 42924, 1, -42315 >>,
       << 42925, 42925, 1, -42305 >>, << 42926, 42926, 1, -42308 >>,
       << 42928, 42928, 1, -42258 >>, << 42929, 42929, 1, -42282 >>,
       << 42930, 42930, 1, -42261 >>, << 42931, 42931, 1, 928 >>,
       << 42932, 42946, 2, 1 >>, << 42948, 42948, 1, -48 >>,
       << 42949, 42949, 1, -42307 >>, << 42950, 42950, 1, -35384 >>,
       << 42951, 42953, 2, 1 >>, << 42960, 42960, 1, 1 >>,
       << 42966, 42968, 2, 1 >>, << 42997, 42997, 1, 1 >>,
       << 65313, 65338, 1, 32 >>, << 66560, 66599, 1, 40 >>,
       << 66736, 66771, 1, 40 >>, << 66928, 66938, 1, 39 >>,
       << 66940, 66954, 1, 39 >>, << 66956, 66962, 1, 39 >>,
       << 66964, 66965, 1, 39 >>, << 68736, 68786, 1, 64 >>,
       << 71840, 71871, 1, 32 >>, << 93760, 93791, 1, 32 >>,
       << 125184, 125217, 1, 34 >> }

InRun(n, run) == n >= run[1] /\ n <= run[2] /\ (n - run[1]) % run[3] = 0

\* ASCII is decided without the table
ToLower(n) ==
    IF n < 128 THEN (IF n \in 65..90 THEN n + 32 ELSE n)
    ELSE Bind({ run \in LowerRuns : InRun(n, run) },
              LAMBDA runs : IF runs = {} THEN n
                            ELSE n + (CHOOSE run \in runs : TRUE)[4])

CapitalIDotAbove == Chr(304)
CapitalSigma == Chr(931)

\* str.lower() of the string of one character c that is not a capital sigma
LowerChar(c) ==
    IF c = CapitalIDotAbove THEN << "i", Chr(775) >>
    ELSE Bind(ToLower(Ord(c)), LAMBDA n : << Chr(n) >>)

\* the ranges << first, last >> of the code points that are case-ignorable,
\* and of those that are cased and not case-ignorable
CaseIgnorableRanges ==
    { << 39, 39 >>, << 46, 46 >>, << 58, 58 >>, << 94, 94 >>, << 96, 96 >>,
       << 168, 168 >>, << 173, 173 >>, << 175, 175 >>, << 180, 180 >>,
       << 183, 184 >>, << 688, 879 >>, << 884, 885 >>, << 890, 890 >>,
       << 900, 901 >>, << 903, 903 >>, << 1155, 1161 >>, << 1369, 1369 >>,
       << 1375, 1375 >>, << 1425, 1469 >>, << 1471, 1471 >>,
       << 1473, 1474 >>, << 1476, 1477 >>, << 1479, 1479 >>,
       << 1524, 1524 >>, << 1536, 1541 >>, << 1552, 1562 >>,
       << 1564, 1564 >>, << 1600, 1600 >>, << 1611, 1631 >>,
       << 1648, 1648 >>, << 1750, 1757 >>, << 1759, 1768 >>,
       << 1770, 1773 >>, << 1807, 1807 >>, << 1809, 1809 >>,
       << 1840, 1866 >>, << 1958, 1968 >>, << 2027, 2037 >>,
       << 2042, 2042 >>, << 2045, 2045 >>, << 2070, 2093 >>,
       << 2137, 2139 >>, << 2184, 2184 >>, << 2192, 2193 >>,
       << 2200, 2207 >>, << 2249, 2306 >>, << 2362, 2362 >>,
       << 2364, 2364 >>, << 2369, 2376 >>, << 2381, 2381 >>,
       << 2385, 2391 >>, << 2402, 2403 >>, << 2417, 2417 >>,
       << 2433, 2433 >>, << 2492, 2492 >>, << 2497, 2500 >>,
       << 2509, 2509 >>, << 2530, 2531 >>, << 2558, 2558 >>,
       << 2561, 2562 >>, << 2620, 2620 >>, << 2625, 2626 >>,
       << 2631, 2632 >>, << 2635, 2637 >>, << 2641, 2641 >>,
       << 2672, 2673 >>, << 2677, 2677 >>, << 2689, 2690 >>,
       << 2748, 2748 >>, << 2753, 2757 >>, << 2759, 2760 >>,
       << 2765, 2765 >>, << 2786, 2787 >>, << 2810, 2815 >>,
       << 2817, 2817 >>, << 2876, 2876 >>, << 2879, 2879 >>,
       << 2881, 2884 >>, << 2893, 2893 >>, << 2901, 2902 >>,
       << 2914, 2915 >>, << 2946, 2946 >>, << 3008, 3008 >>,
       << 3021, 3021 >>, << 3072, 3072 >>, << 3076, 3076 >>,
       << 3132, 3132 >>, << 3134, 3136 >>, << 3142, 3144 >>,
       << 3146, 3149 >>, << 3157, 3158 >>, << 3170, 3171 >>,
       << 3201, 3201 >>, << 3260, 3260 >>, << 3263, 3263 >>,
       << 3270, 3270 >>, << 3276, 3277 >>, << 3298, 3299 >>,
       << 3328, 3329 >>, << 3387, 3388 >>, << 3393, 3396 >>,
       << 3405, 3405 >>, << 3426, 3427 >>, << 3457, 3457 >>,
       << 3530, 3530 >>, << 3538, 3540 >>, << 3542, 3542 >>,
       << 3633, 3633 >>, << 3636, 3642 >>, << 3654, 3662 >>,
       << 3761, 3761 >>, << 3764, 3772 >>, << 3782, 3782 >>,
       << 3784, 3789 >>, << 3864, 3865 >>, << 3893, 3893 >>,
       << 3895, 3895 >>, << 3897, 3897 >>, << 3953, 3966 >>,
       << 3968, 3972 >>, << 3974, 3975 >>, << 3981, 3991 >>,
       << 3993, 4028 >>, << 4038, 4038 >>, << 4141, 4144 >>,
       << 4146, 4151 >>, << 4153, 4154 >>, << 4157, 4158 >>,
       << 4184, 4185 >>, << 4190, 4192 >>, << 4209, 4212 >>,
       << 4226, 4226 >>, << 4229, 4230 >>, << 4237, 4237 >>,
       << 4253, 4253 >>, << 4348, 4348 >>, << 4957, 4959 >>,
       << 5906, 5908 >>, << 5938, 5939 >>, << 5970, 5971 >>,
       << 6002, 6003 >>, << 6068, 6069 >>, << 6071, 6077 >>,
       << 6086, 6086 >>, << 6089, 6099 >>, << 6103, 6103 >>,
       << 6109, 6109 >>, << 6155, 6159 >>, << 6211, 6211 >>,
       << 6277, 6278 >>, << 6313, 6313 >>, << 6432, 6434 >>,
       << 6439, 6440 >>, << 6450, 6450 >>, << 6457, 6459 >>,
       << 6679, 6680 >>, << 6683, 6683 >>, << 6742, 6742 >>,
       << 6744, 6750 >>, << 6752, 6752 >>, << 6754, 6754 >>,
       << 6757, 6764 >>, << 6771, 6780 >>, << 6783, 6783 >>,
       << 6823, 6823 >>, << 6832, 6862 >>, << 6912, 6915 >>,
       << 6964, 6964 >>, << 6966, 6970 >>, << 6972, 6972 >>,
       << 6978, 6978 >>, << 7019, 7027 >>, << 7040, 7041 >>,
       << 7074, 7077 >>, << 7080, 7081 >>, << 7083, 7085 >>,
       << 7142, 7142 >>, << 7144, 7145 >>, << 7149, 7149 >>,
       << 7151, 7153 >>, << 7212, 7219 >>, << 7222, 7223 >>,
       << 7288, 7293 >>, << 7376, 7378 >>, << 7380, 7392 >>,
       << 7394, 7400 >>, << 7405, 7405 >>, << 7412, 7412 >>,
       << 7416, 7417 >>, << 7468, 7530 >>, << 7544, 7544 >>,
       << 7579, 7679 >>, << 8125, 8125 >>, << 8127, 8129 >>,
       << 8141, 8143 >>, << 8157, 8159 >>, << 8173, 8175 >>,
       << 8189, 8190 >>, << 8203, 8207 >>, << 8216, 8217 >>,
       << 8228, 8228 >>, << 8231, 8231 >>, << 8234, 8238 >>,
       << 8288, 8292 >>, << 8294, 8303 >>, << 8305, 8305 >>,
       << 8319, 8319 >>, << 8336, 8348 >>, << 8400, 8432 >>,
       << 11388, 11389 >>, << 11503, 11505 >>, << 11631, 11631 >>,
       << 11647, 11647 >>, << 11744, 11775 >>, << 11823, 11823 >>,
       << 12293, 12293 >>, << 12330, 12333 >>, << 12337, 12341 >>,
       << 12347, 12347 >>, << 12441, 12446 >>, << 12540, 12542 >>,
       << 40981, 40981 >>, << 42232, 42237 >>, << 42508, 42508 >>,
       << 42607, 42610 >>, << 42612, 42621 >>, << 42623, 42623 >>,
       << 42652, 42655 >>, << 42736, 42737 >>, << 42752, 42785 >>,
       << 42864, 42864 >>, << 42888, 42890 >>, << 42994, 42996 >>,
       << 43000, 43001 >>, << 43010, 43010 >>, << 43014, 43014 >>,
       << 43019, 43019 >>, << 43045, 43046 >>, << 43052, 43052 >>,
       << 43204, 43205 >>, << 43232, 43249 >>, << 43263, 43263 >>,
       << 43302, 43309 >>, << 43335, 43345 >>, << 43392, 43394 >>,
       << 43443, 43443 >>, << 43446, 43449 >>, << 43452, 43453 >>,
       << 43471, 43471 >>, << 43493, 43494 >>, << 43561, 43566 >>,
       << 43569, 43570 >>, << 43573, 43574 >>, << 43587, 43587 >>,
       << 43596, 43596 >>, << 43632, 43632 >>, << 43644, 43644 >>,
       << 43696, 43696 >>, << 43698, 43700 >>, << 43703, 43704 >>,
       << 43710, 43711 >>, << 43713, 43713 >>, << 43741, 43741 >>,
       << 43756, 43757 >>, << 43763, 43764 >>, << 43766, 43766 >>,
       << 43867, 43871 >>, << 43881, 43883 >>, << 44005, 44005 >>,
       << 44008, 44008 >>, << 44013, 44013 >>, << 64286, 64286 >>,
       << 64434, 64450 >>, << 65024, 65039 >>, << 65043, 65043 >>,
       << 65056, 65071 >>, << 65106, 65106 >>, << 65109, 65109 >>,
       << 65279, 65279 >>, << 65287, 65287 >>, << 65294, 65294 >>,
       << 65306, 65306 >>, << 65342, 65342 >>, << 65344, 65344 >>,
       << 65392, 65392 >>, << 65438, 65439 >>, << 65507, 65507 >>,
       << 65529, 65531 >>, << 66045, 66045 >>, << 66272, 66272 >>,
       << 66422, 66426 >>, << 67456, 67461 >>, << 67463, 67504 >>,
       << 67506, 67514 >>, << 68097, 68099 >>, << 68101, 68102 >>,
       << 68108, 68111 >>, << 68152, 68154 >>, << 68159, 68159 >>,
       << 68325, 68326 >>, << 68900, 68903 >>, << 69291, 69292 >>,
       << 69446, 69456 >>, << 69506, 69509 >>, << 69633, 69633 >>,
       << 69688, 69702 >>, << 69744, 69744 >>, << 69747, 69748 >>,
       << 69759, 69761 >>, << 69811, 69814 >>, << 69817, 69818 >>,
       << 69821, 69821 >>, << 69826, 69826 >>, << 69837, 69837 >>,
       << 69888, 69890 >>, << 69927, 69931 >>, << 69933, 69940 >>,
       << 70003, 70003 >>, << 70016, 70017 >>, << 70070, 70078 >>,
       << 70089, 70092 >>, << 70095, 70095 >>, << 70191, 70193 >>,
       << 70196, 70196 >>, << 70198, 70199 >>, << 70206, 70206 >>,
       << 70367, 70367 >>, << 70371, 70378 >>, << 70400, 70401 >>,
       << 70459, 70460 >>, << 70464, 70464 >>, << 70502, 70508 >>,
       << 70512, 70516 >>, << 70712, 70719 >>, << 70722, 70724 >>,
       << 70726, 70726 >>, << 70750, 70750 >>, << 70835, 70840 >>,
       << 70842, 70842 >>, << 70847, 70848 >>, << 70850, 70851 >>,
       << 71090, 71093 >>, << 71100, 71101 >>, << 71103, 71104 >>,
       << 71132, 71133 >>, << 71219, 71226 >>, << 71229, 71229 >>,
       << 71231, 71232 >>, << 71339, 71339 >>, << 71341, 71341 >>,
       << 71344, 71349 >>, << 71351, 71351 >>, << 71453, 71455 >>,
       << 71458, 71461 >>, << 71463, 71467 >>, << 71727, 71735 >>,
       << 71737, 71738 >>, << 71995, 71996 >>, << 71998, 71998 >>,
       << 72003, 72003 >>, << 72148, 72151 >>, << 72154, 72155 >>,
       << 72160, 72160 >>, << 72193, 72202 >>, << 72243, 72248 >>,
       << 72251, 72254 >>, << 72263, 72263 >>, << 72273, 72278 >>,
       << 72281, 72283 >>, << 72330, 72342 >>, << 72344, 72345 >>,
       << 72752, 72758 >>, << 72760, 72765 >>, << 72767, 72767 >>,
       << 72850, 72871 >>, << 72874, 72880 >>, << 72882, 72883 >>,
       << 72885, 72886 >>, << 73009, 73014 >>, << 73018, 73018 >>,
       << 73020, 73021 >>, << 73023, 73029 >>, << 73031, 73031 >>,
       << 73104, 73105 >>, << 73109, 73109 >>, << 73111, 73111 >>,
       << 73459, 73460 >>, << 78896, 78904 >>, << 92912, 92916 >>,
       << 92976, 92982 >>, << 92992, 92995 >>, << 94031, 94031 >>,
       << 94095, 94111 >>, << 94176, 94177 >>, << 94179, 94180 >>,
       << 110576, 110579 >>, << 110581, 110587 >>, << 110589, 110590 >>,
       << 113821, 113822 >>, << 113824, 113827 >>, << 118528, 118573 >>,
       << 118576, 118598 >>, << 119143, 119145 >>, << 119155, 119170 >>,
       << 119173, 119179 >>, << 119210, 119213 >>, << 119362, 119364 >>,
       << 121344, 121398 >>, << 121403, 121452 >>, << 121461, 121461 >>,
       << 121476, 121476 >>, << 121499, 121503 >>, << 121505, 121519 >>,
       << 122880, 122886 >>, << 122888, 122904 >>, << 122907, 122913 >>,
       << 122915, 122916 >>, << 122918, 122922 >>, << 123184, 123197 >>,
       << 123566, 123566 >>, << 123628, 123631 >>, << 125136, 125142 >>,
       << 125252, 125259 >>, << 127995, 127999 >>, << 917505, 917505 >>,
       << 917536, 917631 >>, << 917760, 917999 >> }

CasedRanges ==
    { << 65, 90 >>, << 97, 122 >>, << 170, 170 >>, << 181, 181 >>,
       << 186, 186 >>, << 192, 214 >>, << 216, 246 >>, << 248, 442 >>,
       << 444, 447 >>, << 452, 659 >>, << 661, 687 >>, << 880, 883 >>,
       << 886, 887 >>, << 891, 893 >>, << 895, 895 >>, << 902, 902 >>,
       << 904, 906 >>, << 908, 908 >>, << 910, 929 >>, << 931, 1013 >>,
       << 1015, 1153 >>, << 1162, 1327 >>, << 1329, 1366 >>,
       << 1376, 1416 >>, << 4256, 4293 >>, << 4295, 4295 >>,
       << 4301, 4301 >>, << 4304, 4346 >>, << 4349, 4351 >>,
       << 5024, 5109 >>, << 5112, 5117 >>, << 7296, 7304 >>,
       << 7312, 7354 >>, << 7357, 7359 >>, << 7424, 7467 >>,
       << 7531, 7543 >>, << 7545, 7578 >>, << 7680, 7957 >>,
       << 7960, 7965 >>, << 7968, 8005 >>, << 8008, 8013 >>,
       << 8016, 8023 >>, << 8025, 8025 >>, << 8027, 8027 >>,
       << 8029, 8029 >>, << 8031, 8061 >>, << 8064, 8116 >>,
       << 8118, 8124 >>, << 8126, 8126 >>, << 8130, 8132 >>,
       << 8134, 8140 >>, << 8144, 8147 >>, << 8150, 8155 >>,
       << 8160, 8172 >>, << 8178, 8180 >>, << 8182, 8188 >>,
       << 8450, 8450 >>, << 8455, 8455 >>, << 8458, 8467 >>,
       << 8469, 8469 >>, << 8473, 8477 >>, << 8484, 8484 >>,
       << 8486, 8486 >>, << 8488, 8488 >>, << 8490, 8493 >>,
       << 8495, 8500 >>, << 8505, 8505 >>, << 8508, 8511 >>,
       << 8517, 8521 >>, << 8526, 8526 >>, << 8544, 8575 >>,
       << 8579, 8580 >>, << 9398, 9449 >>, << 11264, 11387 >>,
       << 11390, 11492 >>, << 11499, 11502 >>, << 11506, 11507 >>,
       << 11520, 11557 >>, << 11559, 11559 >>, << 11565, 11565 >>,
       << 42560, 42605 >>, << 42624, 42651 >>, << 42786, 42863 >>,
       << 42865, 42887 >>, << 42891, 42894 >>, << 42896, 42954 >>,
       << 42960, 42961 >>, << 42963, 42963 >>, << 42965, 42969 >>,
       << 42997, 42998 >>, << 43002, 43002 >>, << 43824, 43866 >>,
       << 43872, 43880 >>, << 43888, 43967 >>, << 64256, 64262 >>,
       << 64275, 64279 >>, << 65313, 65338 >>, << 65345, 65370 >>,
       << 66560, 66639 >>, << 66736, 66771 >>, << 66776, 66811 >>,
       << 66928, 66938 >>, << 66940, 66954 >>, << 66956, 66962 >>,
       << 66964, 66965 >>, << 66967, 66977 >>, << 66979, 66993 >>,
       << 66995, 67001 >>, << 67003, 67004 >>, << 68736, 68786 >>,
       << 68800, 68850 >>, << 71840, 71903 >>, << 93760, 93823 >>,
       << 119808, 119892 >>, << 119894, 119964 >>, << 119966, 119967 >>,
       << 119970, 119970 >>, << 119973, 119974 >>, << 119977, 119980 >>,
       << 119982, 119993 >>, << 119995, 119995 >>, << 119997, 120003 >>,
       << 120005, 120069 >>, << 120071, 120074 >>, << 120077, 120084 >>,
       << 120086, 120092 >>, << 120094, 120121 >>, << 120123, 120126 >>,
       << 120128, 120132 >>, << 120134, 120134 >>, << 120138, 120144 >>,
       << 120146, 120485 >>, << 120488, 120512 >>, << 120514, 120538 >>,
       << 120540, 120570 >>, << 120572, 120596 >>, << 120598, 120628 >>,
       << 120630, 120654 >>, << 120656, 120686 >>, << 120688, 120712 >>,
       << 120714, 120744 >>, << 120746, 120770 >>, << 120772, 120779 >>,
       << 122624, 122633 >>, << 122635, 122654 >>, << 125184, 125251 >>,
       << 127280, 127305 >>, << 127312, 127337 >>, << 127344, 127369 >> }

InRanges(n, ranges) == \E r \in ranges : n \in r[1]..r[2]

IsCaseIgnorable(c) == InRanges(Ord(c), CaseIgnorableRanges)

\* asked of a character that is not case-ignorable
IsCased(c) == InRanges(Ord(c), CasedRanges)

CaseClass(c) ==
    IF IsCaseIgnorable(c) THEN "ignorable"
    ELSE IF IsCased(c) THEN "cased" ELSE "uncased"

\* a capital sigma at s[i] ends a word: the nearest character before it
\* that is not case-ignorable is cased, and the nearest one after it, if
\* there is one, is not
final_sigma(s, i) ==
    \E class \in { [ j \in 1..Len(s) |-> CaseClass(s[j]) ] } :
        /\ \E j \in 1..(i - 1) :
               /\ class[j] = "cased"
               /\ \A k \in (j + 1)..(i - 1) : class[k] = "ignorable"
        /\ \A j \in (i + 1)..Len(s) :
               class[j] = "cased" => \E k \in (i + 1)..(j - 1) : class[k] = "uncased"

RECURSIVE lower_from(_, _)
lower_from(s, i) ==
    IF i > Len(s) THEN << >>
    ELSE (IF s[i] = CapitalSigma
          THEN << IF final_sigma(s, i) THEN Chr(962) ELSE Chr(963) >>
          ELSE LowerChar(s[i])) \o lower_from(s, i + 1)

lower(s) == lower_from(s, 1)

\* str.split(): the maximal runs of non-whitespace characters, in order.
RECURSIVE SplitWords(_, _, _)
SplitWords(s, cur, acc) ==
    IF s = <<>>
    THEN IF cur = <<>> THEN acc ELSE Append(acc, cur)
    ELSE IF IsSpace(Head(s))
         THEN SplitWords(Tail(s), <<>>, IF cur = <<>> THEN acc ELSE Append(acc, cur))
         ELSE SplitWords(Tail(s), Append(cur, Head(s)), acc)

split(s) == SplitWords(s, <<>>, <<>>)

RECURSIVE join(_, _)
join(sep, words) ==
    IF words = <<>> THEN <<>>
    ELSE IF Len(words) = 1 THEN words[1]
    ELSE words[1] \o sep \o join(sep, Tail(words))

(***************************************************************************)
(* Record normalizer (EloModel.normalize_name, EloModel.normalize_surface) *)
(***************************************************************************)
normalize_name(name) == join(<<" ">>, split(strip(name)))

S_hard == << "h", "a", "r", "d" >>
S_clay == << "c", "l", "a", "y" >>
S_grass == << "g", "r", "a", "s", "s" >>
S_indoor_hard == << "i", "n", "d", "o", "o", "r", "_", "h", "a", "r", "d" >>
S_carpet == << "c", "a", "r", "p", "e", "t" >>
S_indoor_sp_hard == << "i", "n", "d", "o", "o", "r", " ", "h", "a", "r", "d" >>

Surfaces == {S_hard, S_clay, S_grass, S_indoor_hard}

\* mutant: the letter case of the input is kept
normalize_surface_case_sensitive(surface_str) ==
    Bind(strip(surface_str), LAMBDA surface :
        IF surface \in {S_carpet, S_indoor_sp_hard} THEN S_indoor_hard
        ELSE IF surface \in {S_hard, S_clay, S_grass, S_indoor_hard} THEN surface
        ELSE S_hard)

normalize_surface(surface_str) ==
    Bind(lower(strip(surface_str)), LAMBDA surface :
        IF surface \in {S_carpet, S_indoor_sp_hard} THEN S_indoor_hard
        ELSE IF surface \in {S_hard, S_clay, S_grass, S_indoor_hard} THEN surface
        ELSE S_hard)

(***************************************************************************)
(* datetime.strptime(date_str, '%Y%m%d') on a string of 8 characters       *)
(***************************************************************************)
Digits == << "0", "1", "2", "3", "4", "5", "6", "7", "8", "9" >>

\* the code point of the digit zero of every script of decimal digits
\* (category Nd); the digits one to nine of the script follow it
DigitZeros ==
    << 48, 1632, 1776, 1984, 2406, 2534, 2662, 2790, 2918, 3046, 3174, 3302,
       3430, 3558, 3664, 3792, 3872, 4160, 4240, 6112, 6160, 6470, 6608,
       6784, 6800, 6992, 7088, 7232, 7248, 42528, 43216, 43264, 43472, 43504,
       43600, 44016, 65296, 66720, 68912, 69734, 69872, 69942, 70096, 70384,
       70736, 70864, 71248, 71360, 71472, 71904, 72016, 72784, 73040, 73120,
       92768, 92864, 93008, 120782, 120792, 120802, 120812, 120822, 123200,
       123632, 125264, 130032 >>

\* the place in DigitZeros of the script a code point is a digit of, or 0
DigitScript(n) ==
    IF n < 128 THEN (IF n \in 48..57 THEN 1 ELSE 0)
    ELSE Bind({ k \in 1..Len(DigitZeros) : n - DigitZeros[k] \in 0..9 },
              LAMBDA ks : IF ks = {} THEN 0 ELSE CHOOSE k \in ks : TRUE)

\* \d of the pattern of strptime, and a digit of int(): any decimal digit
IsDigit(c) == DigitScript(Ord(c)) # 0

\* a literal class of the pattern, such as [0-2] or [1-9]: ASCII digits only
InRange(c, lo, hi) == \E i \in lo..hi : c = Digits[i + 1]

\* the value of a decimal digit, as int() reads it
DigitVal(c) == Bind(Ord(c), LAMBDA n : n - DigitZeros[DigitScript(n)])

IsLeap(y) == (y % 4 = 0 /\ y % 100 # 0) \/ y % 400 = 0

DaysInMonth(y, m) ==
    IF m = 2 THEN (IF IsLeap(y) THEN 29 ELSE 28)
    ELSE IF m \in {4, 6, 9, 11} THEN 30 ELSE 31

DaysBeforeYear(y) ==
    (y - 1) * 365 + (y - 1) \div 4 - (y - 1) \div 100 + (y - 1) \div 400

RECURSIVE DaysBeforeMonth(_, _)
DaysBeforeMonth(y, m) ==
    IF m = 1 THEN 0 ELSE DaysBeforeMonth(y, m - 1) + DaysInMonth(y, m - 1)

toordinal(y, m, d) == DaysBeforeYear(y) + DaysBeforeMonth(y, m) + d

\* The pattern is \d\d\d\d for %Y, 1[0-2]|0[1-9]|[1-9] for %m and
\* 3[01]|[12]\d|0[1-9]|[1-9]| [1-9] for %d; the match must cover the 8
\* characters, so the month and the day take two characters each, and the
\* year and the day must exist.
DateFields(s) ==
    LET y == DigitVal(s[1]) * 1000 + DigitVal(s[2]) * 100
             + DigitVal(s[3]) * 10 + DigitVal(s[4])
        m == DigitVal(s[5]) * 10 + DigitVal(s[6])
        d == IF s[7] = " " THEN DigitVal(s[8])
             ELSE DigitVal(s[7]) * 10 + DigitVal(s[8])
    IN  << y, m, d >>

strptime_ok(s) ==
    /\ Len(s) = 8
    /\ \A i \in 1..4 : IsDigit(s[i])
    /\ \/ s[5] = "1" /\ InRange(s[6], 0, 2)
       \/ s[5] = "0" /\ InRange(s[6], 1, 9)
    /\ \/ s[7] = "3" /\ InRange(s[8], 0, 1)
       \/ s[7] \in {"1", "2"} /\ IsDigit(s[8])
       \/ s[7] \in {"0", " "} /\ InRange(s[8], 1, 9)
    /\ LET f == DateFields(s)
       IN  /\ f[1] >= 1
           /\ f[2] \in 1..12
           /\ f[3] >= 1
           /\ f[3] <= DaysInMonth(f[1], f[2])

strptime(s) ==
    LET f == DateFields(s) IN toordinal(f[1], f[2], f[3])

(***************************************************************************)
(* int(x) on a str: white space around, an optional sign, then decimal      *)
(* digits, with single underscores allowed between digits                  *)
(***************************************************************************)
\* int() skips the white space of str.isspace() but for the separators
\* 1C..1F
IntSpaces == Spaces \ { Chr(28), Chr(29), Chr(30), Chr(31) }

RECURSIVE int_lstrip(_)
int_lstrip(s) ==
    IF s = <<>> THEN <<>>
    ELSE IF Head(s) \in IntSpaces THEN int_lstrip(Tail(s)) ELSE s

RECURSIVE int_rstrip(_)
int_rstrip(s) ==
    IF s = <<>> THEN <<>>
    ELSE IF s[Len(s)] \in IntSpaces THEN int_rstrip(SubSeq(s, 1, Len(s) - 1)) ELSE s

IntBody(s) ==
    IF s # <<>> /\ Head(s) \in {"+", "-"} THEN Tail(s) ELSE s

\* sys.get_int_max_str_digits(): int() refuses a str of more digits
MaxStrDigits == 4300

int_ok(s) ==
    LET b == IntBody(int_rstrip(int_lstrip(s)))
    IN  /\ b # <<>>
        /\ IsDigit(b[1]) /\ IsDigit(b[Len(b)])
        /\ \A i \in 1..Len(b) : IsDigit(b[i]) \/ b[i] = "_"
        /\ \A i \in 1..(Len(b) - 1) : ~(b[i] = "_" /\ b[i + 1] = "_")
        /\ \/ Len(b) <= MaxStrDigits
           \/ Cardinality({ i \in 1..Len(b) : b[i] # "_" }) <= MaxStrDigits

RECURSIVE DigitsValue(_, _)
DigitsValue(b, acc) ==
    IF b = <<>> THEN acc
    ELSE IF Head(b) = "_" THEN DigitsValue(Tail(b), acc)
    ELSE DigitsValue(Tail(b), acc * 10 + DigitVal(Head(b)))

int_of(s) ==
    LET t == int_rstrip(int_lstrip(s))
        v == DigitsValue(IntBody(t), 0)
    IN  IF Head(t) = "-" THEN 0 - v ELSE v

(***************************************************************************)
(* Fixed-point arithmetic                                                  *)
(***************************************************************************)
RScale == 100 * 100        \* rating units per rating point
PScale == 1000 * 1000      \* probability units in 1.0
MScale == 10000 * 10000    \* units in 1.0 of a power

\* n / d rounded to nearest, the same way for n and -n, for d > 0
RoundDiv(n, d) ==
    IF n >= 0 THEN (n + d \div 2) \div d
    ELSE 0 - (((0 - n) + d \div 2) \div d)

RECURSIVE Pow2(_)
Pow2(n) == IF n = 0 THEN 1 ELSE 2 * Pow2(n - 1)

\* 10 ** n for n in 0..9
PowersOfTen ==
    << 1, 10, 100, 1000, 10000, 100000, 1000000, 10000000, 100000000, 1000000000 >>

Pow10(n) == PowersOfTen[n + 1]

\* a * b for a and b below 10.0 in units of 1/MScale, rounded to the unit.
\* Both are split in three limbs of three digits, so that no product has
\* more than 31 bits; c[i] collects the products of weight 1000**i.
Mul(a, b) ==
    LET a2 == a \div 1000000
        a1 == (a \div 1000) % 1000
        a0 == a % 1000
        b2 == b \div 1000000
        b1 == (b \div 1000) % 1000
        b0 == b % 1000
        c1 == a1 * b0 + a0 * b1 + (a0 * b0) \div 1000
        c2 == a2 * b0 + a1 * b1 + a0 * b2 + c1 \div 1000
    IN  a2 * b2 * 10000 + (a2 * b1 + a1 * b2) * 10 + (c2 + 50) \div 100

\* k * x / PScale rounded to the unit, for 0 <= x <= PScale and k * 1000
\* below 2**31
Portion(k, x) ==
    (k * (x \div 1000) + (k * (x % 1000)) \div 1000 + 500) \div 1000

\* Pow10Digits[k][d + 1] is 10 ** (d / 10**k) in units of 1/MScale
Pow10Digits ==
    << << 100000000, 125892541, 158489319, 199526231, 251188643, 316227766, 398107171, 501187234, 630957344, 794328235 >>,
       << 100000000, 102329299, 104712855, 107151931, 109647820, 112201845, 114815362, 117489755, 120226443, 123026877 >>,
       << 100000000, 100230524, 100461579, 100693167, 100925289, 101157945, 101391139, 101624869, 101859139, 102093948 >>,
       << 100000000, 100023029, 100046062, 100069101, 100092146, 100115196, 100138251, 100161311, 100184377, 100207448 >>,
       << 100000000, 100002303, 100004605, 100006908, 100009211, 100011514, 100013816, 100016119, 100018422, 100020725 >>,
       << 100000000, 100000230, 100000461, 100000691, 100000921, 100001151, 100001382, 100001612, 100001842, 100002072 >>,
       << 100000000, 100000023, 100000046, 100000069, 100000092, 100000115, 100000138, 100000161, 100000184, 100000207 >>,
       << 100000000, 100000002, 100000005, 100000007, 100000009, 100000012, 100000014, 100000016, 100000018, 100000021 >> >>

FracDigits == Len(Pow10Digits)

\* 10 ** (f / 10**FracDigits) for 0 <= f < 10**FracDigits, in units of
\* 1/MScale: the product over the decimal digits of f
RECURSIVE Pow10Frac(_, _, _)
Pow10Frac(f, k, acc) ==
    IF k > FracDigits THEN acc
    ELSE Bind(Mul(acc, Pow10Digits[k][((f \div Pow10(FracDigits - k)) % 10) + 1]),
              LAMBDA product : Pow10Frac(f, k + 1, product))

\* << (x + y) \div d, (x + y) % d >> for x and y below d, without forming x + y
AddMod(x, y, d) == IF x >= d - y THEN << 1, x - (d - y) >> ELSE << 0, x + y >>

\* << (10 * r) \div d, (10 * r) % d >> for r below d, without forming 10 * r
TimesTen(r, d) ==
    LET r2 == AddMod(r, r, d)
        r4 == AddMod(r2[2], r2[2], d)
        r8 == AddMod(r4[2], r4[2], d)
        r10 == AddMod(r8[2], r2[2], d)
    IN  << 5 * r2[1] + 2 * r4[1] + r8[1] + r10[1], r10[2] >>

\* (quot * d + rem) * 10**k / d rounded to nearest, digit by digit
RECURSIVE DivDigits(_, _, _, _)
DivDigits(quot, rem, d, k) ==
    IF k = 0 THEN (IF rem >= d - rem THEN quot + 1 ELSE quot)
    ELSE Bind(TimesTen(rem, d),
              LAMBDA t : DivDigits(quot * 10 + t[1], t[2], d, k - 1))

\* 1 / (1 + 10 ** (gap / 400)) for a gap of 0 or more in units of 1/RScale,
\* in units of 1/PScale. gap / 400 is m / 10**FracDigits with m = 25 * gap;
\* 10 ** (gap / 400) is p * 10**q for the integer part q of the exponent, and
\* numerator and denominator are divided by 10**q.
score_of_gap(gap) ==
    LET m == gap * (Pow10(FracDigits) \div (400 * RScale))
        q == m \div Pow10(FracDigits)
        n == IF q >= 5 THEN Pow10(14 - q) ELSE Pow10(9)
    IN  IF q > 8 THEN 0
        ELSE Bind(MScale \div Pow10(q) + Pow10Frac(m % Pow10(FracDigits), 1, MScale),
                  LAMBDA d : DivDigits(n \div d, n % d, d, IF q >= 5 THEN 0 ELSE 5 - q))

\* EloModel.expected_score: 1 / (1 + 10 ** ((rb - ra) / 400)), ratings in
\* units of 1/RScale, result in units of 1/PScale
\* mutant: the first player is rated 100 points higher than the player is
expected_score_first_favoured(ra, rb) ==
    LET d == rb - (ra + 100 * RScale)
    IN  IF d >= 0 THEN score_of_gap(d) ELSE PScale - score_of_gap(0 - d)

expected_score(ra, rb) ==
    LET d == rb - ra
    IN  IF d >= 0 THEN score_of_gap(d) ELSE PScale - score_of_gap(0 - d)

(***************************************************************************)
(* Containers                                                              *)
(***************************************************************************)
\* A dict is a function on its key set; EmptyDict has no key.
EmptyDict == << >>

HasKey(d, k) == k \in DOMAIN d

Put(d, k, v) == (k :> v) @@ d

\* defaultdict.__getitem__: the value read, and the dict after the read (a
\* missing key is inserted with the default by the read itself)
DefaultGet(d, k, default) == IF HasKey(d, k) THEN d[k] ELSE default

DefaultTouch(d, k, default) == IF HasKey(d, k) THEN d ELSE Put(d, k, default)

\* Optional[datetime]: << >> is None, << d >> is the datetime d
NoDate == << >>

(***************************************************************************)
(* PlayerStats and Match (src/elo.py, lines 18-37)                         *)
(***************************************************************************)
DefaultElo == 1500
HistoryMaxLen == 50

InitialElo == DefaultElo * RScale

NewPlayerStats ==
    [ overall_elo |-> InitialElo,
      surface_elos |-> EmptyDict,
      match_history |-> EmptyDict,
      history_keys |-> << >>,    \* the keys of match_history as the dict iterates them
      h2h_overall |-> EmptyDict,
      h2h_surface |-> EmptyDict ]

Match(date, surface, winner, loser, score, best_of, round_name) ==
    [ date |-> date, surface |-> surface, winner |-> winner, loser |-> loser,
      score |-> score, best_of |-> best_of, round_name |-> round_name ]

\* mutant: a list that is never trimmed
deque_append_unbounded(h, e) == Append(h, e)

\* deque(maxlen=50).append: a full deque drops its oldest (leftmost) item
deque_append(h, e) ==
    IF Len(h) >= HistoryMaxLen THEN Append(Tail(h), e) ELSE Append(h, e)

(***************************************************************************)
(* EloModel state                                                          *)
(***************************************************************************)
VARIABLES
    players,     \* self.players: normalized name -> PlayerStats
    matches,     \* self.matches: the list stored by the last ingestion
    max_date,    \* self.max_date
    folded,      \* log: every Match passed to _process_match, in call order
    op,          \* the operation that ran last
    args,        \* its arguments
    ret,         \* its return value, as a tuple
    err,         \* the exception it raised, or NoError
    warnings,    \* the warnings it printed, in order
    ncalls,      \* number of operations called so far
    brackets,    \* log: for each trial of the last simulate_tournament, the
                 \* values its local list bracket took, round by round
    loaded,      \* EloSystem._loaded
    players_cache \* EloSystem._players_cache

vars == << players, matches, max_date, folded, op, args, ret, err, warnings, ncalls,
          brackets, loaded, players_cache >>

K == 32
BleedTenths == 2
BoostPercent == 110
RecencyDays == 365

\* self.k as set by EloModel() with its default arguments
self_k == K * RScale

\* self.players[name]: the PlayerStats read, a new one when name is missing
PlayerOf(P, name) == DefaultGet(P, name, NewPlayerStats)

SurfaceElo(P, name, surface) ==
    DefaultGet(PlayerOf(P, name).surface_elos, surface, InitialElo)

\* self.players[name].surface_elos[surface] += delta
AddSurfaceElo(P, name, surface, delta) ==
    LET ps == PlayerOf(P, name)
    IN  Put(P, name,
            [ps EXCEPT !.surface_elos =
                Put(@, surface, DefaultGet(@, surface, InitialElo) + delta)])

\* self.players[name].overall_elo += self.bleed * delta (AddOverallElo), and
\* a mutant: the overall rating takes the whole change of the surface rating
AddOverallElo_undamped(P, name, delta) ==
    LET ps == PlayerOf(P, name)
    IN  Put(P, name, [ps EXCEPT !.overall_elo = @ + delta])

AddOverallElo(P, name, delta) ==
    LET ps == PlayerOf(P, name)
    IN  Put(P, name,
            [ps EXCEPT !.overall_elo = @ + RoundDiv(BleedTenths * delta, 10)])

\* a dict iterates its keys in the order of their insertion
KeyInserted(keys, k) ==
    IF \E i \in 1..Len(keys) : keys[i] = k THEN keys ELSE Append(keys, k)

\* self.players[name].match_history[surface].append((result, date))
AppendHistory(P, name, surface, result, date) ==
    LET ps == PlayerOf(P, name)
    IN  Put(P, name,
            [ps EXCEPT !.match_history =
                Put(@, surface,
                    deque_append(DefaultGet(@, surface, << >>), << result, date >>)),
                       !.history_keys = KeyInserted(@, surface)])

\* mutant: the loss of the loser is not counted
AddH2HSurface_wins_only(P, name, surface, other, dw, dl) ==
    LET ps == DefaultGet(P, name, NewPlayerStats)
        row == DefaultGet(ps.h2h_surface, surface, EmptyDict)
        old == DefaultGet(row, other, << 0, 0 >>)
    IN  Put(P, name,
            [ps EXCEPT !.h2h_surface =
                Put(@, surface, Put(row, other, << old[1] + dw, old[2] >>))])

\* mutant: the loss of the loser is not counted in the overall tally
AddH2HOverall_wins_only(P, name, other, dw, dl) ==
    LET ps == PlayerOf(P, name)
        old == DefaultGet(ps.h2h_overall, other, << 0, 0 >>)
    IN  Put(P, name,
            [ps EXCEPT !.h2h_overall = Put(@, other, << old[1] + dw, old[2] >>)])

\* wins, losses = self.players[name].h2h_overall[other]
\* self.players[name].h2h_overall[other] = (wins + dw, losses + dl)
AddH2HOverall(P, name, other, dw, dl) ==
    LET ps == PlayerOf(P, name)
        old == DefaultGet(ps.h2h_overall, other, << 0, 0 >>)
    IN  Put(P, name,
            [ps EXCEPT !.h2h_overall = Put(@, other, << old[1] + dw, old[2] + dl >>)])

\* the same on self.players[name].h2h_surface[surface][other]
AddH2HSurface(P, name, surface, other, dw, dl) ==
    LET ps == PlayerOf(P, name)
        row == DefaultGet(ps.h2h_surface, surface, EmptyDict)
        old == DefaultGet(row, other, << 0, 0 >>)
    IN  Put(P, name,
            [ps EXCEPT !.h2h_surface =
                Put(@, surface, Put(row, other, << old[1] + dw, old[2] + dl >>))])

\* K-factor with recency boost (lines 145-147, k_factor), and a mutant: a
\* match exactly 365 days before the reference date is not boosted
k_factor_strictly_within(md, date) ==
    IF md # NoDate /\ md[1] - date < RecencyDays
    THEN (self_k * BoostPercent) \div 100
    ELSE self_k

k_factor(md, date) ==
    IF md # NoDate /\ md[1] - date <= RecencyDays
    THEN (self_k * BoostPercent) \div 100
    ELSE self_k

\* winner_delta and loser_delta (lines 137-151), from the surface ratings
\* of both players as they are before the match
winner_delta(P, match, md) ==
    LET winner_expected == expected_score(SurfaceElo(P, match.winner, match.surface),
                                          SurfaceElo(P, match.loser, match.surface))
    IN  Portion(k_factor(md, match.date), PScale - winner_expected)

loser_delta(P, match, md) ==
    LET winner_expected == expected_score(SurfaceElo(P, match.winner, match.surface),
                                          SurfaceElo(P, match.loser, match.surface))
        loser_expected == PScale - winner_expected
    IN  0 - Portion(k_factor(md, match.date), loser_expected)

\* EloModel._process_match: the players map after the match
process_match(P, match, md) ==
    LET w == match.winner
        l == match.loser
        s == match.surface
    IN  Bind(winner_delta(P, match, md), LAMBDA wd :
        Bind(loser_delta(P, match, md), LAMBDA ld :
        Bind(AddSurfaceElo(P, w, s, wd), LAMBDA P1 :
        Bind(AddSurfaceElo(P1, l, s, ld), LAMBDA P2 :
        Bind(AddOverallElo(P2, w, wd), LAMBDA P3 :
        Bind(AddOverallElo(P3, l, ld), LAMBDA P4 :
        Bind(AppendHistory(P4, w, s, "W", match.date), LAMBDA P5 :
        Bind(AppendHistory(P5, l, s, "L", match.date), LAMBDA P6 :
        Bind(AddH2HOverall(P6, w, l, 1, 0), LAMBDA P7 :
        Bind(AddH2HOverall(P7, l, w, 0, 1), LAMBDA P8 :
        Bind(AddH2HSurface(P8, w, s, l, 1, 0), LAMBDA P9 :
             AddH2HSurface(P9, l, s, w, 0, 1))))))))))))

(***************************************************************************)
(* Query layer (src/elo.py, lines 178-299). Each query is given by the     *)
(* value it returns and by the players map it leaves behind.               *)
(***************************************************************************)
\* mutant: a player that is not known is rated 0
get_rating_ret_unknown_unrated(P, player, surface) ==
    LET normalized_player == normalize_name(player)
    IN  IF ~HasKey(P, normalized_player) THEN 0
        ELSE IF surface = None THEN P[normalized_player].overall_elo
        ELSE DefaultGet(P[normalized_player].surface_elos,
                        normalize_surface(surface), InitialElo)

get_rating_ret(P, player, surface) ==
    LET normalized_player == normalize_name(player)
    IN  IF ~HasKey(P, normalized_player) THEN InitialElo
        ELSE IF surface = None THEN P[normalized_player].overall_elo
        ELSE DefaultGet(P[normalized_player].surface_elos,
                        normalize_surface(surface), InitialElo)

\* mutant: the player is looked up without the membership test
get_rating_players_unguarded(P, player, surface) ==
    LET normalized_player == normalize_name(player)
        P0 == DefaultTouch(P, normalized_player, NewPlayerStats)
    IN  IF surface = None THEN P0
        ELSE [P0 EXCEPT ![normalized_player].surface_elos =
                 DefaultTouch(@, normalize_surface(surface), InitialElo)]

get_rating_players(P, player, surface) ==
    LET normalized_player == normalize_name(player)
    IN  IF ~HasKey(P, normalized_player) \/ surface = None THEN P
        ELSE [P EXCEPT ![normalized_player].surface_elos =
                 DefaultTouch(@, normalize_surface(surface), InitialElo)]

head_to_head_ret(P, player_a, player_b, surface) ==
    LET norm_a == normalize_name(player_a)
        norm_b == normalize_name(player_b)
    IN  IF ~HasKey(P, norm_a) THEN << 0, 0 >>
        ELSE IF surface = None
             THEN DefaultGet(P[norm_a].h2h_overall, norm_b, << 0, 0 >>)
        ELSE DefaultGet(DefaultGet(P[norm_a].h2h_surface,
                                   normalize_surface(surface), EmptyDict),
                        norm_b, << 0, 0 >>)

head_to_head_players(P, player_a, player_b, surface) ==
    LET norm_a == normalize_name(player_a)
        norm_b == normalize_name(player_b)
    IN  IF ~HasKey(P, norm_a) THEN P
        ELSE IF surface = None
             THEN [P EXCEPT ![norm_a].h2h_overall = DefaultTouch(@, norm_b, << 0, 0 >>)]
        ELSE LET ns == normalize_surface(surface)
                 row == DefaultGet(P[norm_a].h2h_surface, ns, EmptyDict)
             IN  [P EXCEPT ![norm_a].h2h_surface =
                     Put(@, ns, DefaultTouch(row, norm_b, << 0, 0 >>))]

\* seq[start:] of a Python list
SliceFrom(seq, start) ==
    LET from == IF start < 0
                THEN (IF Len(seq) + start < 0 THEN 0 ELSE Len(seq) + start)
                ELSE (IF start > Len(seq) THEN Len(seq) ELSE start)
    IN  SubSeq(seq, from + 1, Len(seq))

RECURSIVE CountWins(_)
CountWins(h) ==
    IF h = << >> THEN 0
    ELSE (IF Head(h)[1] = "W" THEN 1 ELSE 0) + CountWins(Tail(h))

last_n_record_ret(P, player, surface, n) ==
    LET normalized_player == normalize_name(player)
        normalized_surface == normalize_surface(surface)
    IN  IF ~HasKey(P, normalized_player) THEN << 0, 0 >>
        ELSE LET history == DefaultGet(P[normalized_player].match_history,
                                       normalized_surface, << >>)
                 recent_matches == IF Len(history) >= n
                                   THEN SliceFrom(history, 0 - n)
                                   ELSE history
                 wins == CountWins(recent_matches)
             IN  << wins, Len(recent_matches) - wins >>

last_n_record_players(P, player, surface, n) ==
    LET normalized_player == normalize_name(player)
    IN  IF ~HasKey(P, normalized_player) THEN P
        ELSE [P EXCEPT ![normalized_player].match_history =
                 DefaultTouch(@, normalize_surface(surface), << >>),
                       ![normalized_player].history_keys =
                 KeyInserted(@, normalize_surface(surface))]

\* mutant: each player's rating is chosen on its own
match_win_prob_mixed(P, player_a, player_b, surface) ==
    LET norm_a == normalize_name(player_a)
        norm_b == normalize_name(player_b)
        normalized_surface == normalize_surface(surface)
        rating(n) == IF HasKey(P, n) /\ HasKey(P[n].surface_elos, normalized_surface)
                     THEN P[n].surface_elos[normalized_surface]
                     ELSE get_rating_ret(P, n, None)
    IN  expected_score(rating(norm_a), rating(norm_b))

match_win_prob(P, player_a, player_b, surface) ==
    LET norm_a == normalize_name(player_a)
        norm_b == normalize_name(player_b)
        normalized_surface == normalize_surface(surface)
    IN  IF /\ HasKey(P, norm_a)
           /\ HasKey(P[norm_a].surface_elos, normalized_surface)
           /\ HasKey(P, norm_b)
           /\ HasKey(P[norm_b].surface_elos, normalized_surface)
        THEN expected_score(P[norm_a].surface_elos[normalized_surface],
                            P[norm_b].surface_elos[normalized_surface])
        ELSE expected_score(get_rating_ret(P, norm_a, None),
                            get_rating_ret(P, norm_b, None))

\* the two ratings match_win_prob compares: the surface ratings where both
\* players have one (lines 268-269), the overall ratings otherwise (lines
\* 272-273)
match_win_prob_ratings(P, player_a, player_b, surface) ==
    LET norm_a == normalize_name(player_a)
        norm_b == normalize_name(player_b)
        normalized_surface == normalize_surface(surface)
    IN  IF /\ HasKey(P, norm_a)
           /\ HasKey(P[norm_a].surface_elos, normalized_surface)
           /\ HasKey(P, norm_b)
           /\ HasKey(P[norm_b].surface_elos, normalized_surface)
        THEN << P[norm_a].surface_elos[normalized_surface],
                P[norm_b].surface_elos[normalized_surface] >>
        ELSE << get_rating_ret(P, norm_a, None), get_rating_ret(P, norm_b, None) >>

\* mutant: the surface ratings are read with get_rating, with no test that
\* the players have one
match_win_prob_players_unguarded(P, player_a, player_b, surface) ==
    Bind(get_rating_players(P, player_a, surface),
         LAMBDA P1 : get_rating_players(P1, player_b, surface))

\* the players map match_win_prob leaves behind: surface_elos is indexed
\* only after the four membership tests (lines 266-269), and get_rating is
\* called with no surface otherwise (lines 272-273)
match_win_prob_players(P, player_a, player_b, surface) ==
    LET norm_a == normalize_name(player_a)
        norm_b == normalize_name(player_b)
        normalized_surface == normalize_surface(surface)
    IN  IF /\ HasKey(P, norm_a)
           /\ HasKey(P[norm_a].surface_elos, normalized_surface)
           /\ HasKey(P, norm_b)
           /\ HasKey(P[norm_b].surface_elos, normalized_surface)
        THEN Bind([P EXCEPT ![norm_a].surface_elos =
                       DefaultTouch(@, normalized_surface, InitialElo)],
                  LAMBDA P1 :
                     [P1 EXCEPT ![norm_b].surface_elos =
                         DefaultTouch(@, normalized_surface, InitialElo)])
        ELSE Bind(get_rating_players(P, norm_a, None),
                  LAMBDA P1 : get_rating_players(P1, norm_b, None))

\* export_player_snapshot: << elo_surface, elo_overall, wins, losses >>, the
\* last two being the numbers formatted into "last10_surface"
export_player_snapshot_ret(P, player, surface) ==
    LET normalized_player == normalize_name(player)
        normalized_surface == normalize_surface(surface)
        P1 == get_rating_players(P, normalized_player, normalized_surface)
        record == last_n_record_ret(P1, normalized_player, normalized_surface, 10)
    IN  << get_rating_ret(P, normalized_player, normalized_surface),
           get_rating_ret(P1, normalized_player, None),
           record[1], record[2] >>

export_player_snapshot_players(P, player, surface) ==
    LET normalized_player == normalize_name(player)
        normalized_surface == normalize_surface(surface)
        P1 == get_rating_players(P, normalized_player, normalized_surface)
    IN  last_n_record_players(P1, normalized_player, normalized_surface, 10)

\* predict_match (src/elo.py, lines 394-405): the players map its queries
\* leave behind, in the order the calls are made (match_win_prob,
\* head_to_head, get_rating of player1, get_rating of player2). The call
\* returns None; the lines it writes to the standard output are renderings
\* of the values these queries return and are not part of the state.
predict_match(P, player1, player2, surface) ==
    LET P1 == head_to_head_players(P, player1, player2, None)
        P2 == get_rating_players(P1, player1, surface)
    IN  get_rating_players(P2, player2, surface)

(***************************************************************************)
(* Ingestion (EloModel.ingest_csv_files, src/elo.py lines 75-128)          *)
(***************************************************************************)
\* A csv.DictReader row: each column holds its text, None when the row is
\* too short to reach the column, or Absent when the header lacks it. A
\* blank line of the file gives no row: the reader skips it.
Row(tourney_date, surface, winner_name, loser_name, score, best_of, round) ==
    [ tourney_date |-> tourney_date, surface |-> surface,
      winner_name |-> winner_name, loser_name |-> loser_name,
      score |-> score, best_of |-> best_of, round |-> round ]

\* row.get(key, default)
RowGet(v, default) == IF v = Absent THEN default ELSE v

NoMatch == Match(0, << >>, << >>, << >>, << >>, 0, << >>)

Outcome(kind, match, exc) == [ kind |-> kind, match |-> match, exc |-> exc ]

\* The body of the row loop (lines 89-113): the row is accepted as a Match,
\* skipped by a continue ("skip"), skipped by the handler of ValueError and
\* KeyError with a warning ("warn"), or raises past that handler ("raise").
parse_row(row) ==
    LET raw_date == RowGet(row.tourney_date, << >>)
        raw_surface == RowGet(row.surface, << >>)
        raw_winner == RowGet(row.winner_name, << >>)
        raw_loser == RowGet(row.loser_name, << >>)
        raw_score == RowGet(row.score, << >>)
        raw_round == RowGet(row.round, << >>)
    IN  IF raw_date = None THEN Outcome("raise", NoMatch, AttributeError)
        ELSE IF strip(raw_date) = << >> \/ Len(strip(raw_date)) # 8
        THEN Outcome("skip", NoMatch, NoError)
        ELSE IF ~strptime_ok(strip(raw_date))
        THEN Outcome("warn", NoMatch, ValueError)
        ELSE IF None \in { raw_surface, raw_winner, raw_loser, raw_score }
        THEN Outcome("raise", NoMatch, AttributeError)
        ELSE IF row.best_of = None THEN Outcome("raise", NoMatch, TypeError)
        ELSE IF row.best_of # Absent /\ ~int_ok(row.best_of)
        THEN Outcome("warn", NoMatch, ValueError)
        ELSE IF raw_round = None THEN Outcome("raise", NoMatch, AttributeError)
        ELSE IF normalize_name(raw_winner) = << >> \/ normalize_name(raw_loser) = << >>
        THEN Outcome("skip", NoMatch, NoError)
        ELSE Outcome("accept",
                     Match(strptime(strip(raw_date)),
                           normalize_surface(raw_surface),
                           normalize_name(raw_winner),
                           normalize_name(raw_loser),
                           strip(raw_score),
                           IF row.best_of = Absent THEN 3 ELSE int_of(row.best_of),
                           strip(raw_round)),
                     NoError)

\* The files the paths name: exists is FALSE for a path open() does not find.
File(exists, rows) == [ exists |-> exists, rows |-> rows ]

NoRead == [ all_matches |-> << >>, warnings |-> << >>, exc |-> NoError ]

\* for row in reader (lines 88-113)
RECURSIVE read_rows(_, _, _)
read_rows(rows, path, acc) ==
    IF rows = << >> THEN acc
    ELSE Bind(parse_row(Head(rows)), LAMBDA o :
             IF o.kind = "raise" THEN [acc EXCEPT !.exc = o.exc]
             ELSE Bind(IF o.kind = "accept"
                       THEN [acc EXCEPT !.all_matches = Append(@, o.match)]
                       ELSE IF o.kind = "warn"
                       THEN [acc EXCEPT !.warnings = Append(@, << "row", path >>)]
                       ELSE acc,
                       LAMBDA read : read_rows(Tail(rows), path, read)))

\* mutant: a path that is not found ends the loop over the paths
RECURSIVE read_paths_stop_at_missing(_, _, _)
read_paths_stop_at_missing(fs, paths, acc) ==
    IF paths = << >> THEN acc
    ELSE IF ~fs[Head(paths)].exists
    THEN [acc EXCEPT !.warnings = Append(@, << "file", Head(paths) >>)]
    ELSE Bind(read_rows(fs[Head(paths)].rows, Head(paths), acc), LAMBDA a :
             IF a.exc # NoError THEN a
             ELSE read_paths_stop_at_missing(fs, Tail(paths), a))

\* for path in paths (lines 84-117)
RECURSIVE read_paths(_, _, _)
read_paths(fs, paths, acc) ==
    IF paths = << >> THEN acc
    ELSE IF ~fs[Head(paths)].exists
    THEN Bind([acc EXCEPT !.warnings = Append(@, << "file", Head(paths) >>)],
              LAMBDA a : read_paths(fs, Tail(paths), a))
    ELSE Bind(read_rows(fs[Head(paths)].rows, Head(paths), acc), LAMBDA a :
             IF a.exc # NoError THEN a ELSE read_paths(fs, Tail(paths), a))

\* list.sort(key=lambda m: m.date): stable, so a match goes behind every
\* match already placed whose date is not later
RECURSIVE insert_by_date(_, _)
insert_by_date(sorted, m) ==
    IF sorted = << >> THEN << m >>
    ELSE IF Head(sorted).date <= m.date
    THEN << Head(sorted) >> \o insert_by_date(Tail(sorted), m)
    ELSE << m >> \o sorted

RECURSIVE SortInto(_, _)
SortInto(sorted, ms) ==
    IF ms = << >> THEN sorted
    ELSE SortInto(insert_by_date(sorted, Head(ms)), Tail(ms))

sort_by_date(ms) == SortInto(<< >>, ms)

RECURSIVE MaxDateOf(_)
MaxDateOf(ms) ==
    IF Len(ms) = 1 THEN ms[1].date
    ELSE LET rest == MaxDateOf(Tail(ms))
         IN  IF ms[1].date >= rest THEN ms[1].date ELSE rest

\* for match in all_matches: self._process_match(match) (lines 127-128)
RECURSIVE fold_matches(_, _, _)
fold_matches(P, ms, md) ==
    IF ms = << >> THEN P
    ELSE Bind(process_match(P, Head(ms), md),
              LAMBDA after : fold_matches(after, Tail(ms), md))

(***************************************************************************)
(* Application layer (src/app.py)                                          *)
(***************************************************************************)
ZeroDivisionError == "ZeroDivisionError"

\* build_match_context (lines 35-66): the bundle returned, and the players map
\* left behind by its queries, which run in the order of the code
build_match_context_ret(P, player_a, player_b, surface) ==
    Bind(export_player_snapshot_players(P, player_a, surface), LAMBDA P1 :
    Bind(export_player_snapshot_players(P1, player_b, surface), LAMBDA P2 :
    Bind(match_win_prob(P2, player_a, player_b, surface), LAMBDA win_prob_a :
    Bind(head_to_head_players(P2, player_a, player_b, None), LAMBDA P3 :
        [ snapshot_a |-> export_player_snapshot_ret(P, player_a, surface),
          snapshot_b |-> export_player_snapshot_ret(P1, player_b, surface),
          win_prob_A |-> win_prob_a,
          win_prob_B |-> PScale - win_prob_a,
          h2h_overall |-> head_to_head_ret(P2, player_a, player_b, None),
          h2h_surface |-> head_to_head_ret(P3, player_a, player_b, surface) ]))))

build_match_context_players(P, player_a, player_b, surface) ==
    Bind(export_player_snapshot_players(P, player_a, surface), LAMBDA P1 :
    Bind(export_player_snapshot_players(P1, player_b, surface), LAMBDA P2 :
    Bind(head_to_head_players(P2, player_a, player_b, None), LAMBDA P3 :
        head_to_head_players(P3, player_a, player_b, surface))))

\* random.random(): the k-th value drawn in a call. A value drawn is the
\* pair of its first six decimals (units of 1/PScale) and of the way its
\* comparison with a probability ends where six decimals do not tell.
Draw(stream, k) == stream[k]

\* the player has a rating on the surface that no match has changed: the
\* DEFAULT_RATING get_rating has put there
DefaultOn(P, norm, normalized_surface) ==
    /\ HasKey(P, norm)
    /\ HasKey(P[norm].surface_elos, normalized_surface)
    /\ DefaultGet(P[norm].match_history, normalized_surface, << >>) = << >>

\* match_win_prob reads the same float twice: the two names are one
\* player, or both ratings are DEFAULT_RATING, on the surface or as
\* get_rating returns it for a name that is not a key of players.
\* expected_score of two equal floats is 0.5 with no rounding.
EqualRatings(P, player_a, player_b, surface) ==
    Bind(normalize_name(player_a), LAMBDA norm_a :
    Bind(normalize_name(player_b), LAMBDA norm_b :
    Bind(normalize_surface(surface), LAMBDA normalized_surface :
        \/ norm_a = norm_b
        \/ ~HasKey(P, norm_a) /\ ~HasKey(P, norm_b)
        \/ /\ DefaultOn(P, norm_a, normalized_surface)
           /\ DefaultOn(P, norm_b, normalized_surface))))

\* random.random() < prob (line 86). The value drawn is draw[1] or up to one
\* unit more, and prob is rounded to the unit: two units decide that the
\* value is below prob, one unit that it is not, and between them the
\* comparison ends as draw[2] says. exact says that prob is the probability
\* of the code and not a rounding of it.
DrawBelow(draw, prob, exact) ==
    IF exact THEN draw[1] < prob
    ELSE IF draw[1] + 2 <= prob THEN TRUE
    ELSE IF draw[1] >= prob + 1 THEN FALSE
    ELSE draw[2]

\* p1 if random.random() < prob else p2
DrawWinner(draw, prob, exact, p1, p2) ==
    IF DrawBelow(draw, prob, exact) THEN p1 ELSE p2

\* mutant: neighbours are paired (first with second, third with fourth)
bracket_pair_adjacent(bracket, i) == << bracket[2 * i + 1], bracket[2 * i + 2] >>

\* p1 = bracket[i], p2 = bracket[-(i+1)] (lines 81-82), for i from 0
bracket_pair(bracket, i) == << bracket[i + 1], bracket[Len(bracket) - i] >>

\* one pass of the while loop (lines 78-89): the for loop from index i on,
\* winners being next_round so far and k the index of the first draw of the
\* pass; the players map is the one the calls of match_win_prob leave
RECURSIVE next_round(_, _, _, _, _, _, _)
next_round(P, bracket, surface, stream, k, i, winners) ==
    IF i >= Len(bracket) \div 2 THEN [ players |-> P, next_round |-> winners ]
    ELSE Bind(bracket_pair(bracket, i), LAMBDA pair :
         Bind(match_win_prob(P, pair[1], pair[2], surface), LAMBDA prob :
         Bind(DrawWinner(Draw(stream, k + i), prob,
                         EqualRatings(P, pair[1], pair[2], surface),
                         pair[1], pair[2]),
              LAMBDA winner :
         Bind(match_win_prob_players(P, pair[1], pair[2], surface), LAMBDA P1 :
             next_round(P1, bracket, surface, stream, k, i + 1,
                        Append(winners, winner))))))

\* the while loop (lines 77-89): the values bracket takes, the first one
\* included, and the index of the next draw (run_bracket), and a mutant:
\* the loop ends when two players are left
RECURSIVE run_bracket_without_final(_, _, _, _, _, _)
run_bracket_without_final(P, bracket, surface, stream, k, rounds) ==
    IF Len(bracket) > 2
    THEN Bind(next_round(P, bracket, surface, stream, k, 0, << >>),
              LAMBDA nr : run_bracket_without_final(nr.players, nr.next_round, surface,
                                      stream, k + Len(bracket) \div 2,
                                      Append(rounds, nr.next_round)))
    ELSE [ players |-> P, rounds |-> rounds, drawn |-> k ]

RECURSIVE run_bracket(_, _, _, _, _, _)
run_bracket(P, bracket, surface, stream, k, rounds) ==
    IF Len(bracket) > 1
    THEN Bind(next_round(P, bracket, surface, stream, k, 0, << >>),
              LAMBDA nr : run_bracket(nr.players, nr.next_round, surface,
                                      stream, k + Len(bracket) \div 2,
                                      Append(rounds, nr.next_round)))
    ELSE [ players |-> P, rounds |-> rounds, drawn |-> k ]

\* mutant: the champion of a trial is not counted when a title is counted
\* already
count_title_once(title_counts, final) ==
    IF final # << >> /\ \A p \in DOMAIN title_counts : title_counts[p] = 0
    THEN [title_counts EXCEPT ![final[1]] = @ + 1]
    ELSE title_counts

\* if bracket: title_counts[bracket[0]] += 1 (lines 92-93)
count_title(title_counts, final) ==
    IF final # << >>
    THEN [title_counts EXCEPT ![final[1]] = @ + 1]
    ELSE title_counts

\* for _ in range(iterations) (lines 73-93)
RECURSIVE run_trials(_, _, _, _, _, _, _)
run_trials(P, players_list, surface, n, stream, k, acc) ==
    IF n = 0
    THEN [ players |-> P, title_counts |-> acc.title_counts, brackets |-> acc.brackets ]
    ELSE Bind(run_bracket(P, players_list, surface, stream, k, << players_list >>),
              LAMBDA t :
         Bind([ title_counts |-> count_title(acc.title_counts, t.rounds[Len(t.rounds)]),
                brackets |-> Append(acc.brackets, t.rounds) ],
              LAMBDA counted :
                 run_trials(t.players, players_list, surface, n - 1, stream, t.drawn,
                            counted)))

\* simulate_tournament (lines 69-96): the exception raised, the dict
\* returned, the players map left behind and the brackets of the trials. A
\* title probability count / iterations is the pair << count, iterations >>;
\* the division raises when iterations is 0 and there is a player to divide
\* for.
simulate_tournament(P, players_list, surface, iterations, stream) ==
    LET listed == { players_list[i] : i \in 1..Len(players_list) }
    IN  Bind(run_trials(P, players_list, surface, iterations, stream, 1,
                        [ title_counts |-> [ p \in listed |-> 0 ],
                          brackets |-> << >> ]),
             LAMBDA r :
                [ exc |-> IF iterations = 0 /\ listed # {}
                          THEN ZeroDivisionError ELSE NoError,
                  title_probs |-> [ p \in listed |-> << r.title_counts[p], iterations >> ],
                  players |-> r.players,
                  brackets |-> r.brackets ])

\* Pow2Digits[k][d + 1] is 2 ** (d / 10**k) in units of 1/MScale
Pow2Digits ==
    << << 100000000, 107177346, 114869835, 123114441, 131950791, 141421356, 151571657, 162450479, 174110113, 186606598 >>,
       << 100000000, 100695555, 101395948, 102101213, 102811383, 103526492, 104246576, 104971668, 105701804, 106437018 >>,
       << 100000000, 100069339, 100138726, 100208161, 100277644, 100347175, 100416754, 100486382, 100556058, 100625782 >>,
       << 100000000, 100006932, 100013864, 100020797, 100027730, 100034663, 100041597, 100048532, 100055467, 100062403 >>,
       << 100000000, 100000693, 100001386, 100002079, 100002773, 100003466, 100004159, 100004852, 100005545, 100006239 >>,
       << 100000000, 100000069, 100000139, 100000208, 100000277, 100000347, 100000416, 100000485, 100000555, 100000624 >>,
       << 100000000, 100000007, 100000014, 100000021, 100000028, 100000035, 100000042, 100000049, 100000055, 100000062 >>,
       << 100000000, 100000001, 100000001, 100000002, 100000003, 100000003, 100000004, 100000005, 100000006, 100000006 >> >>

\* 2 ** (f / 10**FracDigits) for 0 <= f < 10**FracDigits, in units of 1/MScale
RECURSIVE Pow2Frac(_, _, _)
Pow2Frac(f, k, acc) ==
    IF k > FracDigits THEN acc
    ELSE Bind(Mul(acc, Pow2Digits[k][((f \div Pow10(FracDigits - k)) % 10) + 1]),
              LAMBDA product : Pow2Frac(f, k + 1, product))

SScale == 100 * 1000       \* units in 1.0 of a strength

\* 2 ** (surface_elo / 400) (lines 122, 124), for a rating of 0 or more in
\* units of 1/RScale, in units of 1/SScale
strength(surface_elo) ==
    LET m == surface_elo * (Pow10(FracDigits) \div (400 * RScale))
        q == m \div Pow10(FracDigits)
        u == MScale \div SScale
    IN  Bind(Pow2Frac(m % Pow10(FracDigits), 1, MScale),
             LAMBDA f : Pow2(q) * (f \div u) + RoundDiv(Pow2(q) * (f % u), u))

\* for player in players (lines 103-111): the entries of player_data and the
\* players map the two queries leave behind
RECURSIVE collect_player_data(_, _, _, _)
collect_player_data(P, players_list, surface, player_data) ==
    IF players_list = << >> THEN [ players |-> P, player_data |-> player_data ]
    ELSE LET player == Head(players_list)
         IN  Bind(export_player_snapshot_players(P, player, surface), LAMBDA P1 :
             Bind(get_rating_players(P1, player, surface), LAMBDA P2 :
             Bind(Append(player_data,
                         [ name |-> player,
                           surface_elo |-> get_rating_ret(P1, player, surface),
                           snapshot |-> export_player_snapshot_ret(P, player, surface) ]),
                  LAMBDA collected :
                     collect_player_data(P2, Tail(players_list), surface, collected))))

RECURSIVE total_strength(_)
total_strength(player_data) ==
    IF player_data = << >> THEN 0
    ELSE strength(Head(player_data).surface_elo) + total_strength(Tail(player_data))

\* mutant: a strength is divided by the strength of the first player
quick_title_probs_of_first(player_data) ==
    [ i \in 1..Len(player_data) |->
        << strength(player_data[i].surface_elo),
           strength(player_data[1].surface_elo) >> ]

\* the quick approximation (lines 120-125): strength / total_strength is the
\* pair << strength, total_strength >>
quick_title_probs(player_data) ==
    Bind(total_strength(player_data),
         LAMBDA total :
            [ i \in 1..Len(player_data) |->
                << strength(player_data[i].surface_elo), total >> ])

\* sorted(player_data, key=surface_elo, reverse=True): stable, so an entry
\* goes behind every entry already placed whose rating is not lower
RECURSIVE insert_by_surface_elo(_, _)
insert_by_surface_elo(sorted, x) ==
    IF sorted = << >> THEN << x >>
    ELSE IF Head(sorted).surface_elo >= x.surface_elo
    THEN << Head(sorted) >> \o insert_by_surface_elo(Tail(sorted), x)
    ELSE << x >> \o sorted

RECURSIVE SortSeeds(_, _)
SortSeeds(sorted, player_data) ==
    IF player_data = << >> THEN sorted
    ELSE Bind(insert_by_surface_elo(sorted, Head(player_data)),
              LAMBDA placed : SortSeeds(placed, Tail(player_data)))

\* mutant: the players stay in the order of the list
sorted_players_unsorted(player_data) == player_data

sorted_players(player_data) == SortSeeds(<< >>, player_data)

\* prob < 0.65 (line 135) for prob = expected_score(rating_a, rating_b):
\* expected_score rises with rating_a - rating_b and passes 0.65 between the
\* gaps 107.5381 and 107.5382 (400 * log10(0.65 / 0.35) = 107.53812...),
\* which are one unit of 1/RScale apart. The comparison is made on the
\* ratings: rounded to 1/PScale the probability is 0.65 for either gap.
UpsetGap == 1075381

BelowUpsetThreshold(ratings) == ratings[1] - ratings[2] <= UpsetGap

\* the loop over the pairs (lines 131-141), from index i on: upset_risks so
\* far, and the players map the calls of match_win_prob leave
RECURSIVE upset_risks(_, _, _, _, _)
upset_risks(P, sorted, surface, i, risks) ==
    IF i + 1 >= Len(sorted) THEN [ players |-> P, upset_risks |-> risks ]
    ELSE LET favorite == sorted[i + 1]
             underdog == sorted[i + 2]
         IN  Bind(match_win_prob(P, favorite.name, underdog.name, surface),
                  LAMBDA prob :
             Bind(IF BelowUpsetThreshold(match_win_prob_ratings(P, favorite.name,
                                                                underdog.name, surface))
                  THEN Append(risks, [ favorite |-> favorite.name,
                                       underdog |-> underdog.name,
                                       favorite_prob |-> prob,
                                       upset_potential |-> PScale - prob ])
                  ELSE risks,
                  LAMBDA appended :
             Bind(match_win_prob_players(P, favorite.name, underdog.name, surface),
                  LAMBDA P1 : upset_risks(P1, sorted, surface, i + 2, appended))))

\* upset_risks[:3] (line 147)
top_upset_risks(risks) == IF Len(risks) > 3 THEN SubSeq(risks, 1, 3) ELSE risks

\* build_tournament_context (lines 99-148): the context returned, the players
\* map left behind and the brackets of the simulation, if one is run
build_tournament_context(P, players_list, surface, simulate, stream) ==
    Bind(collect_player_data(P, players_list, surface, << >>),
         LAMBDA c :
            Bind(IF simulate > 0
                 THEN simulate_tournament(c.players, players_list, surface, simulate, stream)
                 ELSE [ exc |-> NoError, title_probs |-> << >>,
                        players |-> c.players, brackets |-> << >> ],
                 LAMBDA sim :
            Bind(IF simulate > 0 THEN << >> ELSE quick_title_probs(c.player_data),
                 LAMBDA quick :
            Bind([ i \in 1..Len(c.player_data) |->
                     [ name |-> c.player_data[i].name,
                       surface_elo |-> c.player_data[i].surface_elo,
                       snapshot |-> c.player_data[i].snapshot,
                       title_prob |-> IF simulate > 0
                                      THEN sim.title_probs[players_list[i]]
                                      ELSE quick[i] ] ],
                 LAMBDA player_data :
            Bind(upset_risks(sim.players, sorted_players(player_data), surface, 0, << >>),
                 LAMBDA risks :
                    [ players |-> risks.players,
                      brackets |-> sim.brackets,
                      context |->
                         [ mode |-> "tournament_brief",
                           surface |-> surface,
                           players |-> player_data,
                           top_upset_risks |-> top_upset_risks(risks.upset_risks) ] ])))))

(***************************************************************************)
(* Inputs                                                                  *)
(***************************************************************************)
MaxCalls == 3        \* operations called in a run

NameA == << "R", " ", "F" >>
NameB == << "N", "D" >>
NameC == << "C" >>
NameZ == << "Z" >>

\* player arguments of the queries, as the caller types them
QueryNames == { << " ", "R", " ", " ", "F", " " >>, NameB, NameZ }

\* surface arguments of the queries
QuerySurfaces == { << "C", "l", "a", "y", " " >>, S_hard }

QueryCounts == { 0, 1, 10 }

\* winner and loser of the matches folded directly: NameA meets the two others
FoldPairs == { << NameA, NameB >>, << NameB, NameA >>,
               << NameA, NameC >>, << NameC, NameA >> }
FoldSurfaces == { S_clay, S_hard }
FoldDates == { toordinal(2023, 1, 15) }

T_score == << "6", "-", "4", " ", "6", "-", "2" >>
T_round == << "F" >>

DirectMatches ==
    { Match(x[1], x[2], x[3][1], x[3][2], T_score, 3, T_round) :
        x \in FoldDates \X FoldSurfaces \X FoldPairs }

(***************************************************************************)
(* Operations                                                              *)
(***************************************************************************)
Init ==
    /\ players = EmptyDict
    /\ matches = << >>
    /\ max_date = NoDate
    /\ folded = << >>
    /\ op = "init"
    /\ args = << >>
    /\ ret = << >>
    /\ err = NoError
    /\ warnings = << >>
    /\ ncalls = 0
    /\ brackets = << >>
    /\ loaded = FALSE
    /\ players_cache = None

\* a direct call of _process_match, as in the demonstration of src/elo.py
ProcessMatch(m) ==
    /\ ncalls' = ncalls + 1
    /\ players' = process_match(players, m, max_date)
    /\ folded' = Append(folded, m)
    /\ op' = "_process_match"
    /\ args' = << m >>
    /\ ret' = << >>
    /\ err' = NoError
    /\ warnings' = << >>
    /\ UNCHANGED << matches, max_date, brackets, loaded, players_cache >>

Query(name, a, r, P) ==
    /\ ncalls' = ncalls + 1
    /\ op' = name
    /\ args' = a
    /\ ret' = r
    /\ players' = P
    /\ err' = NoError
    /\ warnings' = << >>
    /\ UNCHANGED << matches, max_date, folded, brackets, loaded, players_cache >>

GetRating(player, surface) ==
    Query("get_rating", << player, surface >>,
          << get_rating_ret(players, player, surface) >>,
          get_rating_players(players, player, surface))

HeadToHead(player_a, player_b, surface) ==
    Query("head_to_head", << player_a, player_b, surface >>,
          head_to_head_ret(players, player_a, player_b, surface),
          head_to_head_players(players, player_a, player_b, surface))

LastNRecord(player, surface, n) ==
    Query("last_n_record", << player, surface, n >>,
          last_n_record_ret(players, player, surface, n),
          last_n_record_players(players, player, surface, n))

MatchWinProb(player_a, player_b, surface) ==
    Query("match_win_prob", << player_a, player_b, surface >>,
          << match_win_prob(players, player_a, player_b, surface) >>,
          players)

ExportPlayerSnapshot(player, surface) ==
    Query("export_player_snapshot", << player, surface >>,
          export_player_snapshot_ret(players, player, surface),
          export_player_snapshot_players(players, player, surface))

\* predict_match(model, player1, player2, surface): nothing is returned
PredictMatch(player1, player2, surface) ==
    \E P1 \in { predict_match(players, player1, player2, surface) } :
        /\ ncalls' = ncalls + 1
        /\ op' = "predict_match"
        /\ args' = << player1, player2, surface >>
        /\ ret' = << >>
        /\ players' = P1
        /\ err' = NoError
        /\ warnings' = << >>
        /\ UNCHANGED << matches, max_date, folded, brackets, loaded, players_cache >>

QueryOps ==
    { "get_rating", "head_to_head", "last_n_record", "match_win_prob",
      "export_player_snapshot" }

DoProcessMatch ==
    /\ ncalls < MaxCalls
    /\ \E m \in DirectMatches : ProcessMatch(m)

DoGetRating ==
    /\ ncalls < MaxCalls
    /\ \E p \in QueryNames, s \in QuerySurfaces \cup {None} : GetRating(p, s)

DoHeadToHead ==
    /\ ncalls < MaxCalls
    /\ \E a \in QueryNames :
          \E b \in QueryNames \ {a}, s \in QuerySurfaces \cup {None} :
             HeadToHead(a, b, s)

DoLastNRecord ==
    /\ ncalls < MaxCalls
    /\ \E p \in QueryNames, s \in QuerySurfaces, n \in QueryCounts :
          LastNRecord(p, s, n)

DoMatchWinProb ==
    /\ ncalls < MaxCalls
    /\ \E a \in QueryNames :
          \E b \in QueryNames \ {a}, s \in QuerySurfaces : MatchWinProb(a, b, s)

DoExportPlayerSnapshot ==
    /\ ncalls < MaxCalls
    /\ \E p \in QueryNames, s \in QuerySurfaces : ExportPlayerSnapshot(p, s)

DoPredictMatch ==
    /\ ncalls < MaxCalls
    /\ \E b \in { NameB, NameZ } : PredictMatch(<< " ", "R", " ", " ", "F", " " >>, b, S_hard)

\* The engine under direct folds and queries, in any interleaving
Next ==
    \/ DoProcessMatch
    \/ DoGetRating
    \/ DoHeadToHead
    \/ DoLastNRecord
    \/ DoMatchWinProb
    \/ DoExportPlayerSnapshot
    \/ DoPredictMatch

Spec == Init /\ [][Next]_vars

\* The CSV files of the runs
T_A_raw == << " ", "R", " ", " ", "F" >>
T_20230101 == << "2", "0", "2", "3", "0", "1", "0", "1" >>
T_20230601 == << "2", "0", "2", "3", "0", "6", "0", "1" >>
T_20220101 == << "2", "0", "2", "2", "0", "1", "0", "1" >>
T_20230301 == << "2", "0", "2", "3", "0", "3", "0", "1" >>
T_3 == << "3" >>

GoodRow(date, surface, winner, loser) ==
    Row(date, surface, winner, loser, T_score, T_3, T_round)

FileSystem ==
    [ p \in { "atp_2023.csv", "legacy.csv", "dirty.csv", "short.csv",
              "boundary.csv", "seeds.csv", "close.csv", "self.csv",
              "missing.csv" } |->
        CASE p = "atp_2023.csv" ->
               \* out of date order, two matches on the same day
               File(TRUE, << GoodRow(T_20230601, << "H", "a", "r", "d" >>, NameB, T_A_raw),
                             GoodRow(T_20230101, << "h", "a", "r", "d" >>, NameA, NameB),
                             GoodRow(T_20230601, << "C", "l", "a", "y" >>, NameA, NameC) >>)
          [] p = "legacy.csv" ->
               \* a header without the columns best_of and round
               File(TRUE, << Row(T_20230601, << "H", "a", "r", "d" >>, NameA, NameB, T_score, Absent, Absent),
                             Row(T_20220101, << "C", "l", "a", "y" >>, NameC, NameA, T_score, Absent, Absent) >>)
          [] p = "dirty.csv" ->
               File(TRUE, << GoodRow(<< >>, S_hard, NameA, NameB),
                             GoodRow(<< "2", "0", "2", "3" >>, S_hard, NameA, NameB),
                             GoodRow(<< "2", "0", "2", "3", "A", "B", "0", "1" >>, S_hard, NameA, NameB),
                             GoodRow(<< "2", "0", "2", "3", "0", "2", "3", "0" >>, S_hard, NameA, NameB),
                             GoodRow(T_20230301, S_hard, << " ", " " >>, NameB),
                             Row(T_20230301, S_hard, NameA, NameB, T_score, << "x" >>, T_round),
                             Row(<< "2", "0", "2", "3", "0", "3", " ", "1" >>, << "C", "a", "r", "p", "e", "t" >>, NameC, NameB, T_score, << " ", "5", " " >>, T_round) >>)
          [] p = "short.csv" ->
               \* the second row ends after the surface
               File(TRUE, << GoodRow(T_20230101, S_hard, NameA, NameB),
                             Row(<< "2", "0", "2", "3", "0", "1", "0", "2" >>, S_hard, None, None, None, None, None) >>)
          [] p = "boundary.csv" ->
               \* matches 366 and 365 days before the latest one, each the
               \* first match of its players on its surface
               File(TRUE, << GoodRow(<< "2", "0", "2", "2", "0", "5", "3", "1" >>, << "C", "l", "a", "y" >>, NameC, NameB),
                             GoodRow(<< "2", "0", "2", "2", "0", "6", "0", "1" >>, << "G", "r", "a", "s", "s" >>, NameC, NameB),
                             GoodRow(T_20230601, << "H", "a", "r", "d" >>, NameA, NameB) >>)
          [] p = "seeds.csv" ->
               \* seventeen clay matches in May 2023: NameC beats NameB, then
               \* NameA beats NameB on each of the next sixteen days
               File(TRUE, [ i \in 1..17 |->
                              GoodRow(<< "2", "0", "2", "3", "0", "5",
                                         Digits[(i \div 10) + 1], Digits[(i % 10) + 1] >>,
                                      << "C", "l", "a", "y" >>,
                                      IF i = 1 THEN NameC ELSE NameA, NameB) ])
          [] p = "close.csv" ->
               \* eight clay matches in May 2023 that leave NameB 107.5380
               \* rating points above NameA: NameB wins against NameA with a
               \* probability just below 0.65
               File(TRUE, [ i \in 1..8 |->
                              GoodRow(<< "2", "0", "2", "3", "0", "5", "0", Digits[i + 1] >>,
                                      << "C", "l", "a", "y" >>,
                                      << NameA, NameB, NameC, NameB,
                                         NameC, NameA, NameC, NameB >>[i],
                                      << NameC, NameA, NameA, NameA,
                                         NameA, NameC, NameA, NameA >>[i]) ])
          [] p = "self.csv" ->
               \* a row that names one player as winner and as loser
               File(TRUE, << GoodRow(T_20230101, << "H", "a", "r", "d" >>, NameA, T_A_raw),
                             GoodRow(T_20230601, << "H", "a", "r", "d" >>, NameA, NameB) >>)
          [] OTHER -> File(FALSE, << >>) ]

\* the sources of the ingestion runs; seeds.csv and close.csv are read by
\* the tournament runs, self.csv by the EloSystem runs
Paths == DOMAIN FileSystem \ { "seeds.csv", "close.csv", "self.csv" }

\* the path lists passed to ingest_csv_files
PathLists ==
    { << p >> : p \in Paths }
        \cup { << p, q >> : p \in { "atp_2023.csv", "missing.csv" }, q \in Paths }
        \cup { << "legacy.csv", "atp_2023.csv" >> }
        \cup { << "atp_2023.csv", p, "legacy.csv" >> : p \in Paths }

MaxIngests == 2      \* ingest_csv_files calls on one engine

\* EloModel.ingest_csv_files(paths)
Ingest(paths) ==
    \E r \in { read_paths(FileSystem, paths, NoRead) } :
    \E sorted_matches \in { sort_by_date(r.all_matches) } :
    \E new_max_date \in { IF sorted_matches # << >> THEN << MaxDateOf(sorted_matches) >>
                           ELSE max_date } :
        /\ ncalls' = ncalls + 1
        /\ op' = "ingest_csv_files"
        /\ args' = << paths >>
        /\ ret' = << >>
        /\ err' = r.exc
        /\ warnings' = r.warnings
        /\ UNCHANGED << brackets, loaded, players_cache >>
        /\ IF r.exc # NoError
           THEN UNCHANGED << players, matches, max_date, folded >>
           ELSE /\ matches' = sorted_matches
                /\ max_date' = new_max_date
                /\ players' = fold_matches(players, sorted_matches, new_max_date)
                /\ folded' = folded \o sorted_matches

DoIngest ==
    /\ ncalls < MaxIngests
    /\ \E paths \in PathLists : Ingest(paths)

\* One engine fed by ingest_csv_files, once or repeatedly
NextIngest == DoIngest

SpecIngest == Init /\ [][NextIngest]_vars

\* A season of two players on one surface, one match a day: NameA wins
\* until NameB wins for the first time, and NameB wins from then on. The
\* first match of a season may name NameA as winner and as loser:
\* _process_match takes such a match as it takes any other.
MaxSeason == 60
SeasonStart == toordinal(2023, 1, 1)

SeasonMatches ==
    { Match(SeasonStart + Len(folded), S_clay, w, l, T_score, 3, T_round) :
        << w, l >> \in { x \in { << NameA, NameB >>, << NameB, NameA >>,
                                 << NameA, NameA >> } :
                           /\ x[1] = NameA =>
                                 \A i \in 1..Len(folded) : folded[i].winner = NameA
                           /\ x[2] = x[1] => folded = << >> } }

NextSeason ==
    /\ Len(folded) < MaxSeason
    /\ \E m \in SeasonMatches : ProcessMatch(m)

SpecSeason == Init /\ [][NextSeason]_vars

(***************************************************************************)
(* One run of the application: the files are ingested once, then one       *)
(* context is built or one tournament is simulated (src/app.py, main)      *)
(***************************************************************************)
\* the files of a run
AppPathLists ==
    { << "atp_2023.csv", "legacy.csv" >>, << "boundary.csv" >>,
      << "dirty.csv" >>, << "missing.csv" >> }

\* sixteen entrants: three players of the files and thirteen of no match
Entrants ==
    << NameA, NameB, NameC, NameZ, << "D" >>, << "E" >>, << "G" >>, << "H" >>, << "I" >>, << "J" >>, << "K" >>, << "L" >>, << "M" >>, << "O" >>, << "P" >>, << "Q" >> >>

Prefix(seq, n) == SubSeq(seq, 1, n)

BracketSizes == { 0, 1, 2, 3, 4, 5, 6, 8, 16 }

\* the player lists of the simulations: the first entrants, a list with
\* names as the caller types them, and a list that names players twice
PlayerLists ==
    { Prefix(Entrants, n) : n \in BracketSizes }
        \cup { << << " ", "R", " ", " ", "F", " " >>, << "n", "d" >>, NameC, NameB >>,
               << NameA, NameB, NameA, NameB >> }

MaxIterations == 2   \* iterations of a simulation
\* the values random.random() returns after random.seed(s), for s = 0, 1,
\* 2, 3 and 15, cut to six decimals
SeededStreams ==
    <<
       << 844421, 757954, 420571, 258916, 511274, 404934, 783798, 303312, 476596,
          583382, 908112, 504686, 281837, 755804, 618368, 250506, 909746, 982785,
          810217, 902165, 310147, 729831, 898838, 683983, 472142, 100701, 434171,
          610886, 913011, 966606, 477009, 865309, 260492, 805027, 548699,  14041,
          719704, 398823, 824844, 668153,   1142, 493577, 867602, 243910, 325204 >>,
       << 134364, 847433, 763774, 255069, 495435, 449491, 651592, 788723,  93859,
           28347, 835765, 432767, 762280,   2106, 445387, 721540, 228762, 945270,
          901427,  30589,  25445, 541412, 939149, 381204, 216599, 422116,  29040,
          221691, 437887, 495812, 233084, 230866, 218781, 459603, 289781,  21489,
          837577, 556454, 642294, 185906, 992543, 859946, 120889, 332695, 721484 >>,
       << 956034, 947827,  56551,  84871, 835498, 735969, 669730, 308136, 605944,
          606801, 581204, 158382, 430669, 393531, 723012, 994819, 949395, 544177,
          444854, 268240,  35924,  27444, 464893, 318465, 380014, 891789, 525752,
          560510, 236123,  23858, 325142, 136697, 510223, 998683, 674479, 181843,
          893571, 796759, 734401, 906593, 762885, 789747, 353786, 980976, 961900 >>,
       << 237964, 544229, 369955, 603920, 625720,  65528,  13167, 837469, 259354,
          234330, 995644, 470263, 836461, 476353, 639068, 150616, 634860, 868045,
          523181, 741251, 671411,  64031, 758230, 591099, 301267,  31011, 865527,
          472749, 718823, 878812, 714129, 921098, 394963, 800908, 444621, 935586,
          878866,  97454, 135968, 216986, 965480, 436161, 626648, 301026, 507242 >>,
       << 965242,  11654, 735991, 158012, 986339,  16880, 879491, 681350, 857342,
          999816, 239715, 338077, 708194, 280581, 263314, 228609, 857837, 874532,
          797615, 223391, 924838, 511369, 231385, 455536, 419875,  78959, 564691,
          359964, 569615, 930217, 645571, 405100, 863573, 995172, 490256, 945024,
           18750, 140318, 172194, 938064, 690484, 719082, 286617, 494985, 887064 >> >>

\* values of which the first is next to a probability of the runs: NameA
\* wins against a player of no match with probability 0.505532 after
\* atp_2023.csv and legacy.csv, and with 0.542697 after seeds.csv
NearStreams == { << v >> \o Tail(SeededStreams[5]) : v \in { 505532, 542696 } }

\* the draws of the values, every comparison that six decimals leave open
\* ending as below says
Draws(values, below) == [ i \in 1..Len(values) |-> << values[i], below >> ]

\* the values drawn in a call: those of a seed, the least value again and
\* again, or the greatest, or a value next to a probability
DrawStreams ==
    { Draws(values, below) :
        values \in { SeededStreams[i] : i \in 1..Len(SeededStreams) }
                     \cup { [ i \in 1..Len(SeededStreams[1]) |-> v ] :
                              v \in { 0, PScale - 1 } }
                     \cup NearStreams,
        below \in BOOLEAN }

\* the number of matches of a fold of n players
RECURSIVE MatchesOfFold(_)
MatchesOfFold(n) == IF n <= 1 THEN 0 ELSE n \div 2 + MatchesOfFold(n \div 2)

\* model.ingest_csv_files(args.csv) (main, line 218)
AppIngest ==
    /\ op = "init"
    /\ \E paths \in AppPathLists : Ingest(paths)

\* build_match_context(model, player_a, player_b, surface)
BuildMatchContext(player_a, player_b, surface) ==
    /\ ncalls' = ncalls + 1
    /\ op' = "build_match_context"
    /\ args' = << player_a, player_b, surface >>
    /\ ret' = build_match_context_ret(players, player_a, player_b, surface)
    /\ players' = build_match_context_players(players, player_a, player_b, surface)
    /\ err' = NoError
    /\ warnings' = << >>
    /\ UNCHANGED << matches, max_date, folded, brackets, loaded, players_cache >>

DoBuildMatchContext ==
    /\ op = "ingest_csv_files" /\ err = NoError
    /\ \E a \in QueryNames :
          \E b \in QueryNames \ {a}, s \in Surfaces : BuildMatchContext(a, b, s)

\* simulate_tournament(players, model, surface, iterations), with the values
\* random.random() returns during the call
SimulateTournament(players_list, surface, iterations, stream) ==
    /\ iterations * MatchesOfFold(Len(players_list)) <= Len(stream)
    /\ \E r \in { simulate_tournament(players, players_list, surface, iterations, stream) } :
        /\ ncalls' = ncalls + 1
        /\ op' = "simulate_tournament"
        /\ args' = << players_list, surface, iterations, stream >>
        /\ err' = r.exc
        /\ ret' = IF r.exc = NoError THEN r.title_probs ELSE << >>
        /\ brackets' = r.brackets
        /\ warnings' = << >>
        /\ players' = r.players
        /\ UNCHANGED << matches, max_date, folded, loaded, players_cache >>

DoSimulateTournament ==
    /\ op = "ingest_csv_files" /\ err = NoError
    /\ \E players_list \in PlayerLists, s \in { S_clay, S_hard },
          n \in 0..MaxIterations, stream \in DrawStreams :
          SimulateTournament(players_list, s, n, stream)

NextApp ==
    \/ AppIngest
    \/ DoBuildMatchContext
    \/ DoSimulateTournament

SpecApp == Init /\ [][NextApp]_vars

(***************************************************************************)
(* build_tournament_context (src/app.py, lines 99-148) called on an engine *)
(* that has ingested once. The calls are made on the function itself, with *)
(* any list of names and any surface text; the command line in front of it *)
(* (main, lines 250-255) is not part of this specification.                *)
(***************************************************************************)
TournamentPathLists ==
    { << "seeds.csv" >>, << "close.csv" >>, << "atp_2023.csv" >>, << "missing.csv" >> }

\* the surface argument, as the caller types it
TournamentSurfaces == { << "C", "l", "a", "y" >>, S_hard }

TournamentIngest ==
    /\ op = "init"
    /\ \E paths \in TournamentPathLists : Ingest(paths)

\* build_tournament_context(model, players, surface, simulate), with the
\* values random.random() returns during the call
BuildTournamentContext(players_list, surface, simulate, stream) ==
    /\ simulate * MatchesOfFold(Len(players_list)) <= Len(stream)
    /\ \E r \in { build_tournament_context(players, players_list, surface, simulate, stream) } :
        /\ ncalls' = ncalls + 1
        /\ op' = "build_tournament_context"
        /\ args' = << players_list, surface, simulate, stream >>
        /\ err' = NoError
        /\ ret' = r.context
        /\ players' = r.players
        /\ brackets' = r.brackets
        /\ warnings' = << >>
        /\ UNCHANGED << matches, max_date, folded, loaded, players_cache >>

DoBuildTournamentContext ==
    /\ op = "ingest_csv_files" /\ err = NoError
    /\ \E players_list \in PlayerLists, s \in TournamentSurfaces,
          n \in 0..MaxIterations :
          \* no value is drawn without a simulation: one stream stands for all
          \E stream \in IF n = 0 THEN { << >> } ELSE DrawStreams :
             BuildTournamentContext(players_list, s, n, stream)

NextTournament ==
    \/ TournamentIngest
    \/ DoBuildTournamentContext

SpecTournament == Init /\ [][NextTournament]_vars

(***************************************************************************)
(* EloSystem (src/elo_system.py) and the page helpers over it              *)
(***************************************************************************)
\* a < b for two str values: the order of the code points
RECURSIVE str_less(_, _)
str_less(a, b) ==
    IF b = << >> THEN FALSE
    ELSE IF a = << >> THEN TRUE
    ELSE IF Head(a) = Head(b) THEN str_less(Tail(a), Tail(b))
    ELSE Ord(Head(a)) < Ord(Head(b))

\* list(keys) followed by list.sort()
RECURSIVE sorted_keys(_)
sorted_keys(S) ==
    IF S = {} THEN << >>
    ELSE LET first == CHOOSE x \in S : \A y \in S \ {x} : str_less(x, y)
         IN  << first >> \o sorted_keys(S \ {first})

(***************************************************************************)
(* EloSystem queries (src/elo_system.py, lines 42-121)                     *)
(***************************************************************************)
\* str(n) of an int n >= 0
RECURSIVE str_int(_)
str_int(n) ==
    IF n < 10 THEN << Digits[n + 1] >>
    ELSE str_int(n \div 10) \o << Digits[(n % 10) + 1] >>

\* f"{wins}-{losses}"
record_str(wins, losses) == str_int(wins) \o << "-" >> \o str_int(losses)

\* ['hard', 'clay', 'grass', 'indoor_hard'] (lines 54, 59)
SystemSurfaces == << S_hard, S_clay, S_grass, S_indoor_hard >>

\* EloSystem.get_player_elo (lines 87-91); get_player_overall_elo (lines
\* 93-97) is the same with no surface
get_player_elo(P, is_loaded, player_name, surface) ==
    IF ~is_loaded THEN [ ret |-> InitialElo, players |-> P ]
    ELSE [ ret |-> get_rating_ret(P, player_name, surface),
           players |-> get_rating_players(P, player_name, surface) ]

\* EloSystem.get_head_to_head (lines 99-103)
get_head_to_head(P, is_loaded, player_a, player_b, surface) ==
    IF ~is_loaded THEN [ ret |-> << 0, 0 >>, players |-> P ]
    ELSE [ ret |-> head_to_head_ret(P, player_a, player_b, surface),
           players |-> head_to_head_players(P, player_a, player_b, surface) ]

\* EloSystem.get_match_prediction (lines 105-121): the dict returned and the
\* players map its five queries leave behind, in the order of the code
get_match_prediction(P, is_loaded, player_a, player_b, surface) ==
    IF ~is_loaded THEN [ ret |-> EmptyDict, players |-> P ]
    ELSE Bind(match_win_prob(P, player_a, player_b, surface), LAMBDA win_prob_a :
         Bind(head_to_head_players(P, player_a, player_b, None), LAMBDA P1 :
         Bind(head_to_head_players(P1, player_a, player_b, surface), LAMBDA P2 :
         Bind(get_rating_players(P2, player_a, surface), LAMBDA P3 :
             [ ret |-> [ win_prob_a |-> win_prob_a,
                         win_prob_b |-> PScale - win_prob_a,
                         h2h_overall |-> head_to_head_ret(P, player_a, player_b, None),
                         h2h_surface |-> head_to_head_ret(P1, player_a, player_b, surface),
                         player_a_elo |-> get_rating_ret(P2, player_a, surface),
                         player_b_elo |-> get_rating_ret(P3, player_b, surface) ],
               players |-> get_rating_players(P3, player_b, surface) ]))))

\* for surf in [...]: self.model.get_rating(player_name, surf) (lines 53-55)
RECURSIVE ratings_on(_, _, _, _)
ratings_on(P, player_name, surfaces, acc) ==
    IF surfaces = << >> THEN [ values |-> acc, players |-> P ]
    ELSE Bind(Put(acc, Head(surfaces), get_rating_ret(P, player_name, Head(surfaces))),
              LAMBDA values :
                 ratings_on(get_rating_players(P, player_name, Head(surfaces)),
                            player_name, Tail(surfaces), values))

\* for surf in [...]: self.model.last_n_record(player_name, surf, n) (lines
\* 58-61)
RECURSIVE records_on(_, _, _, _, _)
records_on(P, player_name, surfaces, n, acc) ==
    IF surfaces = << >> THEN [ values |-> acc, players |-> P ]
    ELSE Bind(last_n_record_ret(P, player_name, Head(surfaces), n),
              LAMBDA record :
                 Bind(Put(acc, Head(surfaces),
                          [ wins |-> record[1], losses |-> record[2] ]),
                      LAMBDA values :
                         records_on(last_n_record_players(P, player_name, Head(surfaces), n),
                                    player_name, Tail(surfaces), n, values)))

\* the loop over match_history.items() (lines 64-71): the last ten entries
\* of every history, the surfaces in the order the dict holds its keys
RECURSIVE all_matches_of(_, _)
all_matches_of(player_stats, keys) ==
    IF keys = << >> THEN << >>
    ELSE Bind(SliceFrom(player_stats.match_history[Head(keys)], 0 - 10),
              LAMBDA history :
                 [ i \in 1..Len(history) |->
                     [ result |-> history[i][1], date |-> history[i][2],
                       surface |-> Head(keys) ] ]
                     \o all_matches_of(player_stats, Tail(keys)))

\* all_matches.sort(key=date, reverse=True) (line 74): stable, so an entry
\* goes behind every entry already placed whose date is not earlier
RECURSIVE insert_by_date_reverse(_, _)
insert_by_date_reverse(sorted, x) ==
    IF sorted = << >> THEN << x >>
    ELSE IF Head(sorted).date >= x.date
    THEN << Head(sorted) >> \o insert_by_date_reverse(Tail(sorted), x)
    ELSE << x >> \o sorted

RECURSIVE sort_by_date_reverse(_, _)
sort_by_date_reverse(sorted, all_matches) ==
    IF all_matches = << >> THEN sorted
    ELSE sort_by_date_reverse(insert_by_date_reverse(sorted, Head(all_matches)),
                              Tail(all_matches))

\* sum(len(history) for history in match_history.values()) (line 81)
RECURSIVE total_matches_of(_, _)
total_matches_of(player_stats, keys) ==
    IF keys = << >> THEN 0
    ELSE Len(player_stats.match_history[Head(keys)])
             + total_matches_of(player_stats, Tail(keys))

\* EloSystem.export_player_snapshot (lines 42-85): the dict returned and the
\* players map left behind. The name is looked up as it is passed (lines 44,
\* 51); the queries of the model normalize it.
system_export_player_snapshot(P, is_loaded, player_name, surface) ==
    IF ~is_loaded \/ ~HasKey(P, player_name) THEN [ ret |-> EmptyDict, players |-> P ]
    ELSE Bind(export_player_snapshot_ret(P, player_name, surface), LAMBDA snapshot :
         Bind(ratings_on(export_player_snapshot_players(P, player_name, surface),
                         player_name, SystemSurfaces, EmptyDict),
              LAMBDA surface_ratings :
         Bind(records_on(surface_ratings.players, player_name,
                         SystemSurfaces, 10, EmptyDict),
              LAMBDA recent_form :
         Bind(recent_form.players[player_name], LAMBDA player_stats :
         Bind(sort_by_date_reverse(<< >>,
                  all_matches_of(player_stats, player_stats.history_keys)),
              LAMBDA all_matches :
             [ ret |-> [ elo_surface |-> snapshot[1],
                         elo_overall |-> snapshot[2],
                         last10_surface |-> record_str(snapshot[3], snapshot[4]),
                         surface_ratings |-> surface_ratings.values,
                         recent_form |-> recent_form.values,
                         recent_matches |-> IF Len(all_matches) > 10
                                            THEN SubSeq(all_matches, 1, 10)
                                            ELSE all_matches,
                         total_matches |->
                             total_matches_of(player_stats, player_stats.history_keys) ],
               players |-> recent_form.players ])))))

(***************************************************************************)
(* The page helpers that query the engine (src/ui/match.py,                *)
(* src/ui/profiles.py, src/ui/tournament.py), called on an EloSystem with  *)
(* no model_id: no analysis is generated                                   *)
(***************************************************************************)
IndexError == "IndexError"

\* _get_h2h_record (src/ui/match.py, lines 210-243): an EloSystem has no
\* head_to_head, the engine under it is asked
ui_get_h2h_record(P, player1, player2, surface) ==
    Bind(head_to_head_ret(P, player1, player2, None), LAMBDA h2h_overall :
    Bind(head_to_head_players(P, player1, player2, None), LAMBDA P1 :
    Bind(head_to_head_ret(P1, player1, player2, surface), LAMBDA h2h_surface :
        [ ret |-> [ total |-> record_str(h2h_overall[1], h2h_overall[2]),
                    surface |-> record_str(h2h_surface[1], h2h_surface[2]),
                    last_match |-> IF h2h_overall[1] + h2h_overall[2] > 0
                                   THEN "Data available"
                                   ELSE "No previous meetings" ],
          players |-> head_to_head_players(P1, player1, player2, surface) ])))

\* _get_recent_form (src/ui/match.py, lines 245-268)
ui_get_recent_form(P, player, surface) ==
    Bind(last_n_record_ret(P, player, surface, 10), LAMBDA record :
        [ ret |-> record_str(record[1], record[2]),
          players |-> last_n_record_players(P, player, surface, 10) ])

\* _predict_match (src/ui/match.py, lines 156-208)
ui_predict_match(P, is_loaded, player1, player2, surface, best_of) ==
    Bind(get_match_prediction(P, is_loaded, player1, player2, surface),
         LAMBDA prediction_data :
    Bind(DefaultGet(prediction_data.ret, "win_prob_a", PScale \div 2), LAMBDA prob1 :
    Bind(ui_get_h2h_record(prediction_data.players, player1, player2, surface),
         LAMBDA h2h :
    Bind(ui_get_recent_form(h2h.players, player1, surface), LAMBDA form1 :
    Bind(ui_get_recent_form(form1.players, player2, surface), LAMBDA form2 :
        [ ret |-> [ player1 |-> player1,
                    player2 |-> player2,
                    surface |-> surface,
                    best_of |-> best_of,
                    prob1 |-> prob1,
                    prob2 |-> PScale - prob1,
                    elo1 |-> DefaultGet(prediction_data.ret, "player_a_elo", InitialElo),
                    elo2 |-> DefaultGet(prediction_data.ret, "player_b_elo", InitialElo),
                    h2h |-> h2h.ret,
                    form1 |-> form1.ret,
                    form2 |-> form2.ret,
                    ai_analysis |-> None ],
          players |-> form2.players ])))))

\* the keys of elos and the surfaces asked for (src/ui/profiles.py, lines
\* 153-158)
UiSurfaceLabels ==
    << << "Hard Court", S_hard >>, << "Clay Court", S_clay >>,
       << "Grass", S_grass >>, << "Indoor Hard", S_indoor_hard >> >>

\* the dict elos: _safe_get_rating asks get_player_elo for each surface
\* (src/ui/profiles.py, lines 153-158, 181-191)
RECURSIVE ui_elos_on(_, _, _, _, _)
ui_elos_on(P, is_loaded, player_name, labels, acc) ==
    IF labels = << >> THEN [ values |-> acc, players |-> P ]
    ELSE Bind(get_player_elo(P, is_loaded, player_name, Head(labels)[2]),
              LAMBDA r :
                 Bind(Put(acc, Head(labels)[1], r.ret),
                      LAMBDA values :
                         ui_elos_on(r.players, is_loaded, player_name,
                                    Tail(labels), values)))

\* _get_surface_stats (src/ui/profiles.py, lines 205-234): an EloSystem has
\* no last_n_record, the engine under it is asked for the last 1000 matches.
\* The win rate wins / total * 100 is the pair << wins, total >>.
ui_get_surface_stats(P, player_name) ==
    Bind(records_on(P, player_name, SystemSurfaces, 1000, EmptyDict), LAMBDA r :
        [ ret |-> [ s \in DOMAIN r.values |->
                      LET wins == r.values[s].wins
                          total == wins + r.values[s].losses
                      IN  [ win_rate |-> IF total > 0 THEN << wins, total >> ELSE << 0, 1 >>,
                            record |-> record_str(wins, r.values[s].losses),
                            total_matches |-> total ] ],
          players |-> r.players ])

\* _get_player_stats (src/ui/profiles.py, lines 149-178). The recent form is
\* the fallback of _get_recent_form (lines 194-202): an EloSystem has no
\* last_n_record.
ui_get_player_stats(P, is_loaded, player_name) ==
    Bind(ui_elos_on(P, is_loaded, player_name, UiSurfaceLabels, EmptyDict),
         LAMBDA elos :
    Bind(ui_get_surface_stats(elos.players, player_name), LAMBDA surface_stats :
    Bind(system_export_player_snapshot(surface_stats.players, is_loaded,
                                       player_name, S_hard),
         LAMBDA snapshot :
        [ ret |-> [ name |-> player_name,
                    elos |-> elos.values,
                    recent_form |-> [ wins |-> 0, losses |-> 0, total |-> 0 ],
                    surface_stats |-> surface_stats.ret,
                    recent_matches |-> DefaultGet(snapshot.ret, "recent_matches", << >>) ],
          players |-> snapshot.players ])))

\* the loop of a round of _generate_bracket (src/ui/tournament.py, lines
\* 215-231, 246-248): n matches of neighbours, each a get_match_prediction
\* and a value of random.random(), the draws taken from the k-th on; a list
\* too short for the next match raises IndexError
RECURSIVE ui_round(_, _, _, _, _, _, _, _)
ui_round(P, is_loaded, entrants, surface, stream, k, n, acc) ==
    IF n = 0 THEN [ exc |-> NoError, matches |-> acc, players |-> P ]
    ELSE IF Len(entrants) < 2 THEN [ exc |-> IndexError, matches |-> acc, players |-> P ]
    ELSE Bind(get_match_prediction(P, is_loaded, entrants[1], entrants[2], surface),
              LAMBDA prediction_data :
         Bind(DefaultGet(prediction_data.ret, "win_prob_a", PScale \div 2),
              LAMBDA prob :
         Bind(Append(acc, [ p1 |-> entrants[1], p2 |-> entrants[2], prob |-> prob,
                            winner |-> DrawWinner(Draw(stream, k), prob,
                                          \/ ~HasKey(prediction_data.ret, "win_prob_a")
                                          \/ EqualRatings(P, entrants[1], entrants[2], surface),
                                          entrants[1], entrants[2]) ]),
              LAMBDA played :
                 ui_round(prediction_data.players, is_loaded,
                          SubSeq(entrants, 3, Len(entrants)), surface,
                          stream, k + 1, n - 1, played))))

\* [match['winner'] for match in ...]
Winners(round_matches) == [ i \in 1..Len(round_matches) |-> round_matches[i].winner ]

\* _generate_bracket (src/ui/tournament.py, lines 211-269), current_players
\* being the list random.shuffle leaves
ui_generate_bracket(P, is_loaded, current_players, surface, stream) ==
    Bind(ui_round(P, is_loaded, current_players, surface, stream, 1, 8, << >>),
         LAMBDA round1 :
    IF round1.exc # NoError
    THEN [ exc |-> round1.exc, bracket |-> << >>, players |-> round1.players ]
    ELSE
    Bind(ui_round(round1.players, is_loaded, Winners(round1.matches),
                  surface, stream, 9, 4, << >>),
         LAMBDA quarterfinals :
    Bind(ui_round(quarterfinals.players, is_loaded, Winners(quarterfinals.matches),
                  surface, stream, 13, 2, << >>),
         LAMBDA semifinals :
    Bind(ui_round(semifinals.players, is_loaded, Winners(semifinals.matches),
                  surface, stream, 15, 1, << >>),
         LAMBDA final :
            [ exc |-> NoError,
              bracket |-> [ round1 |-> round1.matches,
                            quarterfinals |-> quarterfinals.matches,
                            semifinals |-> semifinals.matches,
                            final |-> final.matches[1],
                            champion |-> final.matches[1].winner ],
              players |-> final.players ]))))

\* sum(model.get_player_elo(p, surface) for p in players) (line 276)
RECURSIVE ui_total_elo(_, _, _, _, _)
ui_total_elo(P, is_loaded, players_list, surface, acc) ==
    IF players_list = << >> THEN [ ret |-> acc, players |-> P ]
    ELSE Bind(get_player_elo(P, is_loaded, Head(players_list), surface),
              LAMBDA r : ui_total_elo(r.players, is_loaded, Tail(players_list), surface,
                                      acc + r.ret))

\* sorted(probs.items(), key=lambda x: x[1], reverse=True) (line 282):
\* stable, so an item goes behind every item already placed whose rating is
\* not lower
RECURSIVE insert_by_prob(_, _)
insert_by_prob(sorted, x) ==
    IF sorted = << >> THEN << x >>
    ELSE IF Head(sorted).prob[1] >= x.prob[1]
    THEN << Head(sorted) >> \o insert_by_prob(Tail(sorted), x)
    ELSE << x >> \o sorted

\* the loop of lines 278-280 and the sort of line 282: the items of the dict
\* returned, a player listed twice being one key. The probability
\* elo / total_elo * 100 is the pair << elo, total_elo >>.
RECURSIVE ui_title_items(_, _, _, _, _, _)
ui_title_items(P, is_loaded, players_list, surface, total_elo, acc) ==
    IF players_list = << >> THEN acc
    ELSE Bind(IF \E i \in 1..Len(acc) : acc[i].player = Head(players_list) THEN acc
              ELSE Append(acc,
                          [ player |-> Head(players_list),
                            prob |-> IF total_elo > 0
                                     THEN << get_player_elo(P, is_loaded,
                                                            Head(players_list),
                                                            surface).ret,
                                             total_elo >>
                                     ELSE << 0, 1 >> ]),
              LAMBDA items : ui_title_items(P, is_loaded, Tail(players_list), surface,
                                            total_elo, items))

RECURSIVE sort_by_prob(_, _)
sort_by_prob(sorted, items) ==
    IF items = << >> THEN sorted
    ELSE sort_by_prob(insert_by_prob(sorted, Head(items)), Tail(items))

\* _calculate_title_probabilities (src/ui/tournament.py, lines 272-283)
ui_calculate_title_probabilities(P, is_loaded, players_list, surface) ==
    Bind(ui_total_elo(P, is_loaded, players_list, surface, 0),
         LAMBDA total_elo :
            [ ret |-> sort_by_prob(<< >>,
                          ui_title_items(total_elo.players, is_loaded, players_list,
                                         surface, total_elo.ret, << >>)),
              players |-> total_elo.players ])

\* _simulate_tournament (src/ui/tournament.py, lines 183-208): an exception
\* is reported on the page and None is returned
ui_simulate_tournament(P, is_loaded, players_list, current_players, surface, stream) ==
    Bind(ui_generate_bracket(P, is_loaded, current_players, surface, stream),
         LAMBDA b :
    IF b.exc # NoError
    THEN [ exc |-> b.exc, ret |-> None, players |-> b.players ]
    ELSE
    Bind(ui_calculate_title_probabilities(b.players, is_loaded, players_list, surface),
         LAMBDA title_probabilities :
             [ exc |-> NoError,
               ret |-> [ players |-> players_list,
                         surface |-> surface,
                         champion |-> b.bracket.champion,
                         runner_up |-> IF b.bracket.final.winner = b.bracket.final.p2
                                       THEN b.bracket.final.p1
                                       ELSE b.bracket.final.p2,
                         bracket |-> b.bracket,
                         title_probabilities |-> title_probabilities.ret,
                         ai_analysis |-> None ],
               players |-> title_probabilities.players ]))

(***************************************************************************)
(* Operations on one EloSystem                                             *)
(***************************************************************************)
MaxSystemCalls == 3  \* EloSystem methods and page helpers called in a run

SystemPathLists ==
    { << "atp_2023.csv" >>, << "legacy.csv" >>, << "boundary.csv" >>,
      << "dirty.csv" >>, << "missing.csv" >>, << "short.csv" >>,
      << "self.csv" >>, << "atp_2023.csv", "short.csv" >> }

\* mutant: the flag is set and the cache reset before the ingestion
LoadData_flag_set_first(csv_paths) ==
    \E r \in { read_paths(FileSystem, csv_paths, NoRead) } :
    \E sorted_matches \in { sort_by_date(r.all_matches) } :
    \E new_max_date \in { IF sorted_matches # << >> THEN << MaxDateOf(sorted_matches) >>
                           ELSE max_date } :
        /\ ncalls' = ncalls + 1
        /\ op' = "load_data"
        /\ args' = << csv_paths >>
        /\ err' = NoError
        /\ UNCHANGED brackets
        /\ loaded' = TRUE
        /\ players_cache' = None
        /\ IF r.exc # NoError
           THEN /\ ret' = << FALSE >>
                /\ warnings' = Append(r.warnings, << "error", r.exc >>)
                /\ UNCHANGED << players, matches, max_date, folded >>
           ELSE /\ ret' = << TRUE >>
                /\ warnings' = r.warnings
                /\ matches' = sorted_matches
                /\ max_date' = new_max_date
                /\ players' = fold_matches(players, sorted_matches, new_max_date)
                /\ folded' = folded \o sorted_matches

\* EloSystem.load_data(csv_paths) (lines 20-29): ingest_csv_files on the
\* model; an exception it raises is caught and printed
LoadData(csv_paths) ==
    \E r \in { read_paths(FileSystem, csv_paths, NoRead) } :
    \E sorted_matches \in { sort_by_date(r.all_matches) } :
    \E new_max_date \in { IF sorted_matches # << >> THEN << MaxDateOf(sorted_matches) >>
                           ELSE max_date } :
        /\ ncalls' = ncalls + 1
        /\ op' = "load_data"
        /\ args' = << csv_paths >>
        /\ err' = NoError
        /\ UNCHANGED brackets
        /\ IF r.exc # NoError
           THEN /\ ret' = << FALSE >>
                /\ warnings' = Append(r.warnings, << "error", r.exc >>)
                /\ UNCHANGED << players, matches, max_date, folded, loaded, players_cache >>
           ELSE /\ ret' = << TRUE >>
                /\ warnings' = r.warnings
                /\ matches' = sorted_matches
                /\ max_date' = new_max_date
                /\ players' = fold_matches(players, sorted_matches, new_max_date)
                /\ folded' = folded \o sorted_matches
                /\ loaded' = TRUE
                /\ players_cache' = None

\* EloSystem.get_all_players() (lines 31-40)
GetAllPlayers ==
    /\ ncalls' = ncalls + 1
    /\ op' = "get_all_players"
    /\ args' = << >>
    /\ err' = NoError
    /\ warnings' = << >>
    /\ IF ~loaded
       THEN /\ ret' = << << >> >>
            /\ UNCHANGED players_cache
       ELSE /\ players_cache' = IF players_cache = None
                                THEN sorted_keys(DOMAIN players)
                                ELSE players_cache
            /\ ret' = << players_cache' >>
    /\ UNCHANGED << players, matches, max_date, folded, brackets, loaded >>

\* a call that returns r.ret and leaves r.players
SystemCall(name, a, r) == Query(name, a, << r.ret >>, r.players)

GetPlayerElo(player_name, surface) ==
    \E r \in { get_player_elo(players, loaded, player_name, surface) } :
        SystemCall("get_player_elo", << player_name, surface >>, r)

GetPlayerOverallElo(player_name) ==
    \E r \in { get_player_elo(players, loaded, player_name, None) } :
        SystemCall("get_player_overall_elo", << player_name >>, r)

GetHeadToHead(player_a, player_b, surface) ==
    \E r \in { get_head_to_head(players, loaded, player_a, player_b, surface) } :
        Query("get_head_to_head", << player_a, player_b, surface >>, r.ret, r.players)

GetMatchPrediction(player_a, player_b, surface) ==
    \E r \in { get_match_prediction(players, loaded, player_a, player_b, surface) } :
        SystemCall("get_match_prediction", << player_a, player_b, surface >>, r)

SystemExportPlayerSnapshot(player_name, surface) ==
    \E r \in { system_export_player_snapshot(players, loaded, player_name, surface) } :
        SystemCall("EloSystem.export_player_snapshot", << player_name, surface >>, r)

UiPredictMatch(player1, player2, surface, best_of) ==
    \E r \in { ui_predict_match(players, loaded, player1, player2, surface, best_of) } :
        SystemCall("_predict_match", << player1, player2, surface, best_of >>, r)

UiGetPlayerStats(player_name) ==
    \E r \in { ui_get_player_stats(players, loaded, player_name) } :
        SystemCall("_get_player_stats", << player_name >>, r)

\* _simulate_tournament with the list random.shuffle leaves and the values
\* random.random() returns during the call
UiSimulateTournament(players_list, current_players, surface, stream) ==
    \E r \in { ui_simulate_tournament(players, loaded, players_list, current_players,
                                      surface, stream) } :
        /\ ncalls' = ncalls + 1
        /\ op' = "_simulate_tournament"
        /\ args' = << players_list, current_players, surface, stream >>
        /\ ret' = << r.ret >>
        /\ players' = r.players
        /\ err' = NoError
        /\ warnings' = IF r.exc # NoError THEN << << "error", r.exc >> >> ELSE << >>
        /\ UNCHANGED << matches, max_date, folded, brackets, loaded, players_cache >>

\* player arguments: a name of the files, the same name as a caller types
\* it, and a name of no file
SystemNames == { NameA, T_A_raw, NameZ }

SystemPairs == { << NameA, NameB >>, << T_A_raw, NameZ >> }

Reversed(seq) == [ i \in 1..Len(seq) |-> seq[Len(seq) - i + 1] ]

\* calls of the bracket page: the players, the list random.shuffle leaves
\* and the values drawn. The sixteen entrants stay in order and every first
\* player wins, or the values are those of random.seed(0), or the entrants
\* are reversed and every second player wins; a list of three is too short
\* for a bracket.
UiStream(v) == Draws([ i \in 1..MatchesOfFold(Len(Entrants)) |-> v ], FALSE)

UiBrackets ==
    { << Entrants, Entrants, UiStream(0) >>,
      << Entrants, Entrants, Draws(Prefix(SeededStreams[1], 15), TRUE) >>,
      << Entrants, Reversed(Entrants), UiStream(PScale - 1) >>,
      << Prefix(Entrants, 3), Reversed(Prefix(Entrants, 3)), UiStream(0) >> }

DoLoadData ==
    /\ ncalls < MaxSystemCalls
    /\ \E csv_paths \in SystemPathLists : LoadData(csv_paths)

DoGetAllPlayers ==
    /\ ncalls < MaxSystemCalls
    /\ GetAllPlayers

DoGetPlayerElo ==
    /\ ncalls < MaxSystemCalls
    /\ \E p \in { NameA, NameZ } : GetPlayerElo(p, S_clay)

DoGetPlayerOverallElo ==
    /\ ncalls < MaxSystemCalls
    /\ \E p \in { T_A_raw, NameZ } : GetPlayerOverallElo(p)

DoGetHeadToHead ==
    /\ ncalls < MaxSystemCalls
    /\ \E s \in { None, S_hard } : GetHeadToHead(NameA, NameB, s)

DoGetMatchPrediction ==
    /\ ncalls < MaxSystemCalls
    /\ \E x \in SystemPairs : GetMatchPrediction(x[1], x[2], S_hard)

DoSystemExportPlayerSnapshot ==
    /\ ncalls < MaxSystemCalls
    /\ \E p \in SystemNames : SystemExportPlayerSnapshot(p, << "C", "l", "a", "y" >>)

DoUiPredictMatch ==
    /\ ncalls < MaxSystemCalls
    /\ \E x \in SystemPairs : UiPredictMatch(x[1], x[2], S_hard, 3)

DoUiGetPlayerStats ==
    /\ ncalls < MaxSystemCalls
    /\ \E p \in { NameA, NameZ } : UiGetPlayerStats(p)

DoUiSimulateTournament ==
    /\ ncalls < MaxSystemCalls
    /\ \E x \in UiBrackets : UiSimulateTournament(x[1], x[2], S_hard, x[3])

NextSystem ==
    \/ DoLoadData
    \/ DoGetAllPlayers
    \/ DoGetPlayerElo
    \/ DoGetPlayerOverallElo
    \/ DoGetHeadToHead
    \/ DoGetMatchPrediction
    \/ DoSystemExportPlayerSnapshot
    \/ DoUiPredictMatch
    \/ DoUiGetPlayerStats
    \/ DoUiSimulateTournament

SpecSystem == Init /\ [][NextSystem]_vars

(***************************************************************************)
(* normalize_surface on sample inputs: a word, in a letter case, between   *)
(* runs of whitespace; the result can be normalized again                  *)
(***************************************************************************)
MaxNormalize == 2    \* normalize_surface calls in a run

T_unknown_surface == << "u", "n", "k", "n", "o", "w", "n", "-", "s", "u", "r", "f", "a", "c", "e" >>
T_indoor_two_spaces == << "i", "n", "d", "o", "o", "r", " ", " ", "h", "a", "r", "d" >>
T_car_pet == << "c", "a", "r", " ", "p", "e", "t" >>
T_hardcourt == << "h", "a", "r", "d", "c", "o", "u", "r", "t" >>
T_indoor == << "i", "n", "d", "o", "o", "r" >>

\* the names normalize_surface tests for, and other words
SurfaceWords ==
    { S_carpet, S_indoor_sp_hard, S_hard, S_clay, S_grass, S_indoor_hard,
      << >>, T_unknown_surface, T_indoor_two_spaces, T_car_pet, T_hardcourt,
      T_indoor }

\* the capital of a small letter of ASCII
UpperChar(c) == IF Ord(c) \in 97..122 THEN Chr(Ord(c) - 32) ELSE c

\* the letter cases a word is typed in: as it is, in capitals, capitalized,
\* and with every second letter in capitals
LetterCases == { "lower", "upper", "title", "mixed" }

InCase(word, case) ==
    [ i \in 1..Len(word) |->
        IF \/ case = "upper"
           \/ case = "title" /\ i = 1
           \/ case = "mixed" /\ i % 2 = 0
        THEN UpperChar(word[i]) ELSE word[i] ]

\* whitespace before and after the word, the last one a form feed, a
\* no-break space and an em space
Paddings == { << >>, << " " >>, << "\t", " " >>, << "\n" >>, << "\f", " ", "U+2003" >> }

Padded(word, case, before, after) == before \o InCase(word, case) \o after

SurfaceInputs ==
    { Padded(x[1], x[2], x[3], x[4]) :
        x \in SurfaceWords \X LetterCases \X Paddings \X Paddings }

NormalizeSurface(surface_str) ==
    /\ ncalls' = ncalls + 1
    /\ op' = "normalize_surface"
    /\ args' = << surface_str >>
    /\ ret' = << normalize_surface(surface_str) >>
    /\ err' = NoError
    /\ warnings' = << >>
    /\ UNCHANGED << players, matches, max_date, folded, brackets, loaded, players_cache >>

DoNormalizeSurface ==
    /\ ncalls < MaxNormalize
    /\ \E x \in SurfaceInputs : NormalizeSurface(x)

\* normalize_surface(normalize_surface(x)): the result is passed in again
DoNormalizeSurfaceAgain ==
    /\ ncalls < MaxNormalize
    /\ op = "normalize_surface"
    /\ NormalizeSurface(ret[1])

NextSurface ==
    \/ DoNormalizeSurface
    \/ DoNormalizeSurfaceAgain

SpecSurface == Init /\ [][NextSurface]_vars

(***************************************************************************)
(* Properties of the query layer and of the update rule                    *)
(***************************************************************************)
\* pairs of players the symmetry is evaluated for, in every state that a fold
\* or an ingestion has left; after a query it is evaluated for the players
\* and the surface of the query
ProbePairs ==
    { << << " ", "R", " ", " ", "F", " " >>, NameB >>, << NameA, NameC >>,
      << NameB, NameC >>, << NameA, NameZ >> }

Min(a, b) == IF a <= b THEN a ELSE b

FoldedNames == { folded[i].winner : i \in 1..Len(folded) }
                   \cup { folded[i].loser : i \in 1..Len(folded) }

HistoryOf(P, name, surface) ==
    IF HasKey(P, name) /\ HasKey(P[name].match_history, surface)
    THEN P[name].match_history[surface]
    ELSE << >>



\* C1: no query changes any part of the engine state: every step of
\* get_rating, head_to_head, last_n_record, match_win_prob or
\* export_player_snapshot leaves the player map, with every surface-rating,
\* history and head-to-head entry, as it was.
C1_QueriesLeaveStateUnchanged ==
    [][op' \in QueryOps =>
          /\ players' = players
          /\ matches' = matches
          /\ max_date' = max_date]_vars

\* C2: a query never adds a player: the known players are exactly the
\* winners and losers of the folded matches, whatever queries ran.
C2_KnownPlayersAreFoldedPlayers == DOMAIN players = FoldedNames

\* a query naming the never-folded player has run on an engine that knows
\* other players
C2_Witness ==
    /\ op \in QueryOps
    /\ args[1] = NameZ
    /\ folded # << >>
    /\ ~HasKey(players, NameZ)

Swap(t) == << t[2], t[1] >>

\* C3: head-to-head tallies are symmetric complements, overall and on every
\* surface: head_to_head(A, B, s) = (x, y) exactly when
\* head_to_head(B, A, s) = (y, x); after a single match that A wins against
\* B on clay, head_to_head(A, B, 'clay') = (1, 0),
\* head_to_head(B, A, 'clay') = (0, 1) and head_to_head(A, B) = (1, 0).
C3_HeadToHeadSymmetric ==
    /\ op \notin QueryOps =>
          \A pr \in ProbePairs, s \in QuerySurfaces \cup {None} :
              head_to_head_ret(players, pr[1], pr[2], s)
                  = Swap(head_to_head_ret(players, pr[2], pr[1], s))
    /\ op = "head_to_head" =>
          ret = Swap(head_to_head_ret(players, args[2], args[1], args[3]))
    /\ (Len(folded) = 1 /\ folded[1].surface = S_clay) =>
          LET a == folded[1].winner
              b == folded[1].loser
          IN  /\ head_to_head_ret(players, a, b, S_clay) = << 1, 0 >>
              /\ head_to_head_ret(players, b, a, S_clay) = << 0, 1 >>
              /\ head_to_head_ret(players, a, b, None) = << 1, 0 >>
    /\ op = "head_to_head" =>
          ret = head_to_head_ret(players, args[1], args[2], args[3])

\* head_to_head has returned a tally with wins on both sides
C3_Witness ==
    /\ op = "head_to_head"
    /\ ret = << 1, 1 >>
    /\ args[3] # None

HasSurfaceRating(P, name, surface) ==
    HasKey(P, name) /\ HasKey(P[name].surface_elos, surface)

OverallOrDefault(P, name) ==
    IF HasKey(P, name) THEN P[name].overall_elo ELSE InitialElo

\* C4: match_win_prob(a, b, surface) is the expected score of the two
\* surface ratings when both players have a rating entry for the normalized
\* surface, and otherwise the expected score of the two overall ratings
\* (1500.0 for an unknown player); it never mixes the two kinds.
C4_WinProbAllOrNothing ==
    op = "match_win_prob" =>
        LET na == normalize_name(args[1])
            nb == normalize_name(args[2])
            ns == normalize_surface(args[3])
        IN  ret = << IF HasSurfaceRating(players, na, ns)
                        /\ HasSurfaceRating(players, nb, ns)
                     THEN expected_score(players[na].surface_elos[ns],
                                         players[nb].surface_elos[ns])
                     ELSE expected_score(OverallOrDefault(players, na),
                                         OverallOrDefault(players, nb)) >>

\* match_win_prob has run for two known players of whom exactly one has a
\* rating on the surface, that rating differing from the overall rating
C4_Witness ==
    /\ op = "match_win_prob"
    /\ LET na == normalize_name(args[1])
           nb == normalize_name(args[2])
           ns == normalize_surface(args[3])
       IN  /\ HasKey(players, na)
           /\ HasKey(players, nb)
           /\ HasSurfaceRating(players, na, ns)
           /\ ~HasSurfaceRating(players, nb, ns)
           /\ players[na].surface_elos[ns] # players[na].overall_elo
           /\ players[na].surface_elos[ns] # InitialElo

\* C6: last_n_record(player, surface, n) counts the most recent
\* min(n, available) entries of the history, so wins + losses =
\* min(n, available) for every n >= 0, and it returns (0, 0) for an unknown
\* player.
C6_LastNCountsMinOfNAndAvailable ==
    op = "last_n_record" =>
        LET h == HistoryOf(players, normalize_name(args[1]), normalize_surface(args[2]))
            m == Min(args[3], Len(h))
            wins == CountWins(SubSeq(h, Len(h) - m + 1, Len(h)))
        IN  ret = << wins, m - wins >>

\* the (result, date) entries that the folded matches give a player on a
\* surface, oldest first: a win of the player, a loss of the player, or a
\* win followed by a loss where the match names the player twice
ResultsOf(log, name, surface) ==
    LET played == SelectSeq(log, LAMBDA m : /\ m.surface = surface
                                           /\ (m.winner = name \/ m.loser = name))
        upto(i) == i + Cardinality({ j \in 1..i : played[j].winner = played[j].loser })
    IN  [ k \in 1..upto(Len(played)) |->
            LET i == CHOOSE x \in 1..Len(played) : upto(x - 1) < k /\ k <= upto(x)
            IN  << IF played[i].winner = name
                      /\ (played[i].loser # name \/ k < upto(i))
                   THEN "W" ELSE "L",
                   played[i].date >> ]

LastOf(seq, n) == SubSeq(seq, Len(seq) - Min(n, Len(seq)) + 1, Len(seq))

\* C5: no per-surface history ever holds more than 50 entries; it is the 50
\* newest results of the player on the surface in insertion order, the
\* oldest being evicted first, so after 60 sequential matches of one player
\* on one surface it holds the results of matches 11 to 60, the last one
\* last.
C5_HistoryKeepsNewestFifty ==
    /\ \A name \in DOMAIN players :
          \A surface \in DOMAIN players[name].match_history :
             LET h == players[name].match_history[surface]
             IN  /\ Len(h) <= 50
                 /\ h = LastOf(ResultsOf(folded, name, surface), 50)
    /\ Len(folded) = 60 =>
          \A name \in { NameA, NameB } :
             LET h == HistoryOf(players, name, S_clay)
             IN  /\ Len(h) = 50
                 /\ h[1][2] = folded[11].date
                 /\ h[50][2] = folded[60].date

\* sixty matches were folded and the history of NameA is full
C5_Witness ==
    /\ Len(folded) = 60
    /\ Len(HistoryOf(players, NameA, S_clay)) = 50
    /\ op = "_process_match"

\* C10: every folded match strictly raises the winner's surface rating and
\* strictly lowers the loser's, by changes of equal magnitude and opposite
\* sign, both computed from the surface ratings of the two players as they
\* were before the match.
C10_SurfaceChangesOpposite ==
    [][op' = "_process_match" =>
          LET m == args'[1]
              w0 == SurfaceElo(players, m.winner, m.surface)
              l0 == SurfaceElo(players, m.loser, m.surface)
              w1 == SurfaceElo(players', m.winner, m.surface)
              l1 == SurfaceElo(players', m.loser, m.surface)
              kf == k_factor(max_date, m.date)
          IN  /\ w1 > w0
              /\ l1 < l0
              /\ w1 - w0 = 0 - (l1 - l0)
              /\ w1 - w0 = Portion(kf, PScale - expected_score(w0, l0))]_vars

(***************************************************************************)
(* Ingestion claims, checked under SpecIngest                              *)
(***************************************************************************)
\* the records the row loop accepted from the paths, in source-then-row order
Accepted(paths) == read_paths(FileSystem, paths, NoRead).all_matches

\* the place of ms[i] when ms is put in date order with ties in list order
StablePosition(ms, i) ==
    Cardinality({ j \in 1..Len(ms) : ms[j].date < ms[i].date })
        + Cardinality({ j \in 1..i : ms[j].date = ms[i].date })

NonDecreasing(h) == \A i \in 1..(Len(h) - 1) : h[i][2] <= h[i + 1][2]

\* C7: every ingest_csv_files call that returns stores and folds the accepted
\* records of all its sources exactly once each, in date-ascending order with
\* ties in source-then-row order, so no match is folded before a match with
\* an earlier date; every history is the tail of the results in fold order,
\* and after ingest_csv_files every player's history is non-decreasing in
\* date.
C7_FoldsInDateOrderOnce ==
    (op = "ingest_csv_files" /\ err = NoError) =>
        LET acc == Accepted(args[1])
            n == Len(acc)
        IN  /\ Len(matches) = n
            /\ \A i \in 1..n : matches[StablePosition(acc, i)] = acc[i]
            /\ \A i \in 1..(n - 1) : matches[i].date <= matches[i + 1].date
            /\ Len(folded) >= n
            /\ SubSeq(folded, Len(folded) - n + 1, Len(folded)) = matches
            /\ \A i \in 1..(Len(folded) - 1) : folded[i].date <= folded[i + 1].date
            /\ \A name \in DOMAIN players :
                  \A surface \in DOMAIN players[name].match_history :
                     LET h == players[name].match_history[surface]
                     IN  /\ h = LastOf(ResultsOf(folded, name, surface), 50)
                         /\ NonDecreasing(h)

\* the rows of the existing sources that are well-formed, each on its own
RECURSIVE WellFormedOf(_)
WellFormedOf(rows) ==
    IF rows = << >> THEN << >>
    ELSE LET o == parse_row(Head(rows))
         IN  (IF o.kind = "accept" THEN << o.match >> ELSE << >>)
                 \o WellFormedOf(Tail(rows))

RECURSIVE WellFormed(_)
WellFormed(paths) ==
    IF paths = << >> THEN << >>
    ELSE (IF FileSystem[Head(paths)].exists
          THEN WellFormedOf(FileSystem[Head(paths)].rows) ELSE << >>)
             \o WellFormed(Tail(paths))

\* C8: a malformed row never aborts ingestion: whatever rows the sources
\* hold, among them a short row with a missing value, ingest_csv_files
\* returns without an error and has accepted and folded every well-formed
\* row of every source.
C8_MalformedRowNeverAborts ==
    op = "ingest_csv_files" =>
        LET good == WellFormed(args[1])
        IN  /\ err = NoError
            /\ Len(matches) = Len(good)
            /\ \A i \in 1..Len(good) :
                  /\ \E j \in 1..Len(matches) : matches[j] = good[i]
                  /\ \E j \in 1..Len(folded) : folded[j] = good[i]

\* C9: a path that names no file produces one warning and is skipped
\* without aborting: the call ends as the call on the same list without the
\* missing paths ends, so when it returns, the records of the sources listed
\* before and after the missing one are parsed, sorted together and folded.
C9_MissingSourceIsSkipped ==
    [][op' = "ingest_csv_files" =>
          LET paths == args'[1]
              present == SelectSeq(paths, LAMBDA f : FileSystem[f].exists)
              missing == SelectSeq(paths, LAMBDA f : ~FileSystem[f].exists)
          IN  \E without \in { read_paths(FileSystem, present, NoRead) } :
              /\ err' = without.exc
              /\ SelectSeq(warnings', LAMBDA w : w[1] = "row") = without.warnings
              /\ err' = NoError =>
                    /\ SelectSeq(warnings', LAMBDA w : w[1] = "file")
                           = [ i \in 1..Len(missing) |-> << "file", missing[i] >> ]
                    /\ matches' = sort_by_date(without.all_matches)
                    /\ folded' = folded \o matches'
                    /\ players' = fold_matches(players, matches', max_date')
    ]_vars

\* a missing file was listed between two files, and the five records of the
\* two files were stored and folded
C9_Witness ==
    /\ op = "ingest_csv_files" /\ err = NoError
    /\ args = << << "atp_2023.csv", "missing.csv", "legacy.csv" >> >>
    /\ warnings = << << "file", "missing.csv" >> >>
    /\ Len(matches) = 5 /\ folded = matches
    /\ matches[1].winner = NameC /\ matches[5].winner = NameA
    /\ DOMAIN players = { NameA, NameB, NameC }

(***************************************************************************)
(* The two rating tracks                                                   *)
(***************************************************************************)
RECURSIVE SurfaceDrift(_, _)
\* the sum over the surfaces in S of (surface rating - 1500)
SurfaceDrift(elos, S) ==
    IF S = {} THEN 0
    ELSE LET s == CHOOSE x \in S : TRUE
         IN  (elos[s] - InitialElo) + SurfaceDrift(elos, S \ {s})

\* the number of folded matches the player took part in
MatchesOf(name) ==
    Cardinality({ i \in 1..Len(folded) :
                    folded[i].winner = name \/ folded[i].loser = name })

Abs(x) == IF x >= 0 THEN x ELSE 0 - x

\* C11: each match changes a participant's overall rating by bleed (0.2)
\* times the participant's surface-rating change, rounded to the unit of the
\* ratings, and changes nothing else of the ratings: the participant's other
\* surfaces and all other players keep their ratings. So in every state each
\* player's overall rating minus 1500 is bleed times the sum over the
\* surfaces of (surface rating minus 1500), up to half a unit of rounding
\* for each match of the player.
C11_OverallTracksBleedOfSurface ==
    [][/\ op' = "_process_match" =>
             LET m == args'[1]
             IN  /\ \A x \in { m.winner, m.loser } :
                       /\ players'[x].overall_elo - OverallOrDefault(players, x)
                             = RoundDiv(BleedTenths
                                          * (players'[x].surface_elos[m.surface]
                                               - SurfaceElo(players, x, m.surface)), 10)
                       /\ \A t \in DOMAIN players'[x].surface_elos \ { m.surface } :
                             /\ HasSurfaceRating(players, x, t)
                             /\ players'[x].surface_elos[t] = players[x].surface_elos[t]
                 /\ \A y \in DOMAIN players' \ { m.winner, m.loser } :
                       /\ HasKey(players, y)
                       /\ players'[y].overall_elo = players[y].overall_elo
                       /\ players'[y].surface_elos = players[y].surface_elos
       /\ \A name \in DOMAIN players' :
             Abs(10 * (players'[name].overall_elo - InitialElo)
                   - BleedTenths * SurfaceDrift(players'[name].surface_elos,
                                                DOMAIN players'[name].surface_elos))
                <= 5 * MatchesOf(name)'
    ]_vars

\* a player with matches on clay and on hard court: both surface ratings and
\* the overall rating have left 1500
C11_Witness ==
    /\ op = "_process_match"
    /\ HasSurfaceRating(players, NameA, S_clay)
    /\ HasSurfaceRating(players, NameA, S_hard)
    /\ players[NameA].surface_elos[S_clay] > InitialElo
    /\ players[NameA].surface_elos[S_hard] < InitialElo
    /\ players[NameA].overall_elo # InitialElo
    /\ MatchesOf(NameA) = 3

(***************************************************************************)
(* The recency boost and the reference date                                *)
(***************************************************************************)
\* the latest date of the records
LatestDate(ms) ==
    CHOOSE d \in { ms[i].date : i \in 1..Len(ms) } :
        \A i \in 1..Len(ms) : ms[i].date <= d

\* C12: in an ingestion every match is folded with K = 32 * 1.10 when its
\* date is at most 365 days before the latest date of all records accepted
\* by the call, and with K = 32 otherwise: whatever was folded before it,
\* the winner's surface rating rises by that K times (1 - expected score).
\* The reference date is the latest date of all records of the call from the
\* first fold on, so a first match 366 days older gains 16.00 from 1500
\* against 1500 and one exactly 365 days older gains 17.60.
C12_BoostWithinYearOfLatestRecord ==
    [][(op' = "ingest_csv_files" /\ err' = NoError /\ matches' # << >>) =>
          \A P0 \in { players }, ms \in { matches' }, md \in { max_date' } :
             /\ md = << LatestDate(ms) >>
             /\ players' = fold_matches(P0, ms, md)
             /\ \A i \in 1..Len(ms) :
                   \A before \in { fold_matches(P0, SubSeq(ms, 1, i - 1), md) } :
                      LET m == ms[i]
                          w0 == SurfaceElo(before, m.winner, m.surface)
                          l0 == SurfaceElo(before, m.loser, m.surface)
                          w1 == SurfaceElo(process_match(before, m, md), m.winner, m.surface)
                          keff == IF LatestDate(ms) - m.date <= 365
                                  THEN (K * RScale * 110) \div 100
                                  ELSE K * RScale
                      IN  w1 - w0 = Portion(keff, PScale - expected_score(w0, l0))
    ]_vars

\* a fresh engine ingested the file with matches 366, 365 and 0 days before
\* the latest date: the first gave 16.00 points, the second and third 17.60
C12_Witness ==
    /\ op = "ingest_csv_files" /\ err = NoError
    /\ args = << << "boundary.csv" >> >>
    /\ folded = matches /\ Len(matches) = 3
    /\ max_date[1] - matches[1].date = 366
    /\ max_date[1] - matches[2].date = 365
    /\ players[NameC].surface_elos[S_clay] = InitialElo + 16 * RScale
    /\ players[NameC].surface_elos[S_grass] = InitialElo + (176 * RScale) \div 10
    /\ players[NameA].surface_elos[S_hard] = InitialElo + (176 * RScale) \div 10

\* C13: once an ingestion has set the max date, no later operation changes
\* it, a later ingest_csv_files call included, and the max date is at least
\* the date of every match folded into the ratings.
C13_MaxDateFixedOnceSet ==
    [][/\ max_date # NoDate => max_date' = max_date
       /\ max_date' # NoDate =>
             \A i \in 1..Len(folded') : folded'[i].date <= max_date'[1]
    ]_vars

(***************************************************************************)
(* Cold start                                                              *)
(***************************************************************************)
\* the name, normalized, is the winner or loser of no folded match
Unknown(name) == normalize_name(name) \notin FoldedNames

\* C14: a query about players of no folded match does not fail and returns
\* the cold-start defaults: get_rating 1500.0 for every surface and for the
\* overall rating, match_win_prob of two unknown players 0.5 on every
\* surface, head_to_head with an unknown first player (0, 0) and
\* last_n_record (0, 0).
C14_UnknownPlayersGetDefaults ==
    /\ op \in QueryOps => err = NoError
    /\ (op = "get_rating" /\ Unknown(args[1])) => ret = << 1500 * RScale >>
    /\ (op = "match_win_prob" /\ Unknown(args[1]) /\ Unknown(args[2])) =>
          ret = << PScale \div 2 >>
    /\ (op = "head_to_head" /\ Unknown(args[1])) => ret = << 0, 0 >>
    /\ (op = "last_n_record" /\ Unknown(args[1])) => ret = << 0, 0 >>

\* after matches of other players were folded, the surface rating of a
\* player of no match was asked for
C14_Witness ==
    /\ op = "get_rating"
    /\ Len(folded) = 2
    /\ Unknown(args[1]) /\ args[1] = NameZ
    /\ args[2] # None
    /\ ret = << InitialElo >>
    /\ ~HasKey(players, NameZ)

(***************************************************************************)
(* Win probabilities of the two argument orders                            *)
(***************************************************************************)
\* the two ratings match_win_prob compares: the surface ratings when both
\* players have an entry for the surface, else the overall ratings
RatingsCompared(P, a, b, surface) ==
    IF HasSurfaceRating(P, normalize_name(a), normalize_surface(surface))
          /\ HasSurfaceRating(P, normalize_name(b), normalize_surface(surface))
    THEN << P[normalize_name(a)].surface_elos[normalize_surface(surface)],
            P[normalize_name(b)].surface_elos[normalize_surface(surface)] >>
    ELSE << OverallOrDefault(P, normalize_name(a)),
            OverallOrDefault(P, normalize_name(b)) >>

\* C15: in every engine state (as left by an ingestion or by the queries of
\* a context; a simulation keeps the engine of the state before it), for
\* the players a and b and the surface of every probe, both argument orders
\* of match_win_prob compare the same two ratings, surface or overall, and
\* match_win_prob(a, b, surface) + match_win_prob(b, a, surface) is 1
\* within the precision of the probabilities (3 units of 0.000001). The bundle of build_match_context
\* reports match_win_prob(a, b, surface) and 1 minus it, which sum to 1, the
\* second being match_win_prob(b, a, surface) within that precision.
C15_WinProbsSumToOne ==
    /\ op # "simulate_tournament" =>
       \A pr \in ProbePairs, s \in Surfaces :
          \A r \in { RatingsCompared(players, pr[1], pr[2], s) },
             ab \in { match_win_prob(players, pr[1], pr[2], s) },
             ba \in { match_win_prob(players, pr[2], pr[1], s) } :
              /\ RatingsCompared(players, pr[2], pr[1], s) = Swap(r)
              /\ ab = expected_score(r[1], r[2])
              /\ ba = expected_score(r[2], r[1])
              /\ Abs(ab + ba - PScale) <= 3
    /\ op = "build_match_context" =>
          /\ ret.win_prob_A + ret.win_prob_B = PScale
          /\ ret.win_prob_A = match_win_prob(players, args[1], args[2], args[3])
          /\ Abs(ret.win_prob_B
                   - match_win_prob(players, args[2], args[1], args[3])) <= 3

\* a bundle was built for a player with matches on clay and a player of no
\* match on clay: the two probabilities differ
C15_Witness ==
    /\ op = "build_match_context"
    /\ args[1] = << " ", "R", " ", " ", "F", " " >> /\ args[2] = NameB
    /\ args[3] = S_clay
    /\ HasKey(folded, 5)
    /\ ret.win_prob_A > ret.win_prob_B
    /\ ret.win_prob_A = expected_score(players[NameA].surface_elos[S_clay], InitialElo)

(***************************************************************************)
(* The bracket simulation, checked under SpecApp                           *)
(***************************************************************************)
RECURSIVE Log2(_)
\* the k with 2^k = n, for a power of two n
Log2(n) == IF n <= 1 THEN 0 ELSE 1 + Log2(n \div 2)

IsPowerOfTwo(n) == n >= 1 /\ Pow2(Log2(n)) = n

Listed(players_list) == { players_list[i] : i \in 1..Len(players_list) }

\* C16: for a player list of length 2^k (k >= 0) every bracket fold ends
\* after exactly k rounds with exactly one player left, the bracket halving
\* in each round, and the champion is a player of the list: 16 players
\* reduce 16, 8, 4, 2, 1 in 4 rounds.
C16_PowerOfTwoBracketHalves ==
    (op = "simulate_tournament" /\ IsPowerOfTwo(Len(args[1]))) =>
        LET k == Log2(Len(args[1]))
        IN  /\ Len(brackets) = args[3]
            /\ \A t \in 1..Len(brackets) :
                  /\ Len(brackets[t]) = k + 1
                  /\ \A i \in 0..k : Len(brackets[t][i + 1]) = Pow2(k - i)
                  /\ brackets[t][k + 1][1] \in Listed(args[1])
            /\ (Len(args[1]) = 16 /\ args[3] > 0) =>
                  [ i \in 1..5 |-> Len(brackets[1][i]) ] = << 16, 8, 4, 2, 1 >>

\* two folds of sixteen players were run, and the champion of the first is
\* neither the first nor the last player of the list
C16_Witness ==
    /\ op = "simulate_tournament" /\ err = NoError
    /\ Len(args[1]) = 16 /\ args[3] = 2
    /\ Len(brackets) = 2 /\ Len(brackets[1]) = 5
    /\ Len(brackets[1][5]) = 1
    /\ brackets[1][5][1] \notin { args[1][1], args[1][16] }

\* the number of matches played in the rounds of a fold
RECURSIVE MatchesPlayed(_)
MatchesPlayed(rounds) ==
    IF Len(rounds) <= 1 THEN 0
    ELSE Len(rounds[1]) \div 2 + MatchesPlayed(Tail(rounds))

\* the number of random values drawn before trial t
RECURSIVE DrawnBefore(_, _)
DrawnBefore(trials, t) ==
    IF t <= 1 THEN 0
    ELSE DrawnBefore(trials, t - 1) + MatchesPlayed(trials[t - 1])

\* trial t of the trials starts from the list in the order given; in every
\* round the player at position j (from 1) meets the player at position
\* length + 1 - j, the next bracket holds one player of each pair, in the
\* order of the pairs, and that player is the first of the pair exactly when
\* the random value drawn for the match is less than
\* match_win_prob(first, second, surface); the values are drawn from the
\* stream in the order of the matches
FoldFollowsDraws(trials, t, players_list, surface, stream) ==
    /\ trials[t][1] = players_list
    /\ \A i \in 1..(Len(trials[t]) - 1) :
          LET cur == trials[t][i]
              nxt == trials[t][i + 1]
              before == DrawnBefore(trials, t)
                          + MatchesPlayed(SubSeq(trials[t], 1, i))
          IN  /\ Len(nxt) = Len(cur) \div 2
              /\ \A j \in 1..Len(nxt) :
                    LET p1 == cur[j]
                        p2 == cur[Len(cur) + 1 - j]
                        u == stream[before + j]
                    IN  nxt[j] = IF DrawBelow(u, match_win_prob(players, p1, p2, surface),
                                              EqualRatings(players, p1, p2, surface))
                                 THEN p1 ELSE p2

\* C17: every fold starts from the list in the order given; in every round
\* the player at position j (from 1) meets the player at position
\* length + 1 - j, the next bracket holds one player of each pair, in the
\* order of the pairs, and that player is the first of the pair exactly when
\* the random value drawn for the match is less than
\* match_win_prob(first, second, surface).
C17_PairsFirstWithLast ==
    op = "simulate_tournament" =>
        \A t \in 1..Len(brackets) :
           FoldFollowsDraws(brackets, t, args[1], args[2], args[4])

\* a fold of eight players whose first value drawn has the six decimals of
\* the probability of the first pairing and is not below it: the last
\* player won the first pairing, and the second player won the second
C17_Witness ==
    /\ op = "simulate_tournament" /\ err = NoError
    /\ Len(args[1]) = 8 /\ args[3] >= 1
    /\ ~EqualRatings(players, args[1][1], args[1][8], args[2])
    /\ args[4][1] = << match_win_prob(players, args[1][1], args[1][8], args[2]), FALSE >>
    /\ brackets[1][2][1] = args[1][8]
    /\ brackets[1][2][2] = args[1][2]
    /\ args[1][8] # args[1][1]

\* the number of trials whose last bracket is the player alone
TitlesOf(trials, p) ==
    Cardinality({ t \in 1..Len(trials) : trials[t][Len(trials[t])] = << p >> })

RECURSIVE SumOfCounts(_, _)
SumOfCounts(probs, S) ==
    IF S = {} THEN 0
    ELSE LET p == CHOOSE x \in S : TRUE
         IN  probs[p][1] + SumOfCounts(probs, S \ {p})

\* C18: simulate_tournament with N > 0 iterations and a non-empty list runs
\* N complete folds, each from the list as given and each ending with one
\* champion, whose count rises by 1; the result has an entry count / N for
\* every listed player, the counts sum to N and so the title probabilities
\* sum to 1.
C18_TitleCountsSumToIterations ==
    (op = "simulate_tournament" /\ args[3] > 0 /\ args[1] # << >>) =>
        /\ err = NoError
        /\ Len(brackets) = args[3]
        /\ \A t \in 1..Len(brackets) :
              /\ brackets[t][1] = args[1]
              /\ Len(brackets[t][Len(brackets[t])]) = 1
        /\ DOMAIN ret = Listed(args[1])
        /\ \A p \in DOMAIN ret : ret[p] = << TitlesOf(brackets, p), args[3] >>
        /\ SumOfCounts(ret, DOMAIN ret) = args[3]

\* two folds with different champions: two players with probability 1/2
C18_Witness ==
    /\ op = "simulate_tournament" /\ err = NoError
    /\ args[3] = 2 /\ Len(args[1]) = 6
    /\ Cardinality({ p \in DOMAIN ret : ret[p] = << 1, 2 >> }) = 2
    /\ Cardinality({ p \in DOMAIN ret : ret[p] = << 0, 2 >> }) = 4

\* C19: a simulation leaves the rating engine as it was: no player is added
\* and no rating, surface entry, history or head-to-head tally, stored match
\* or max date changes.
C19_SimulationLeavesEngineUnchanged ==
    [][op' = "simulate_tournament" =>
          /\ players' = players
          /\ matches' = matches
          /\ max_date' = max_date
          /\ folded' = folded]_vars

\* two folds of sixteen players on clay were run on an engine in which the
\* first player has matches but none on clay, the second has clay matches
\* and the others are unknown
C19_Witness ==
    /\ op = "simulate_tournament" /\ err = NoError
    /\ Len(args[1]) = 16 /\ args[3] = 2 /\ args[2] = S_clay
    /\ HasKey(players, NameA) /\ ~HasSurfaceRating(players, NameA, S_clay)
    /\ HasSurfaceRating(players, NameB, S_clay)
    /\ ~HasKey(players, NameZ)

\* C20: a player list whose length is not a power of two is answered with a
\* failure: simulate_tournament does not return title probabilities for it.
C20_NonPowerOfTwoFails ==
    (op = "simulate_tournament" /\ ~IsPowerOfTwo(Len(args[1]))) => err # NoError

(***************************************************************************)
(* normalize_surface, checked under SpecSurface                            *)
(***************************************************************************)
\* what the surface names are to be read as
CanonicalOf ==
    (S_carpet :> S_indoor_hard) @@ (S_indoor_sp_hard :> S_indoor_hard) @@
    (S_hard :> S_hard) @@ (S_clay :> S_clay) @@ (S_grass :> S_grass) @@
    (S_indoor_hard :> S_indoor_hard)

\* C22: normalize_surface returns one of hard, clay, grass, indoor_hard:
\* indoor_hard for carpet and for indoor hard, each canonical name for
\* itself, in any letter case and between any whitespace, and hard for
\* every other input, the empty string included; normalizing the result
\* again returns the result.
C22_NormalizeSurfaceCanonicalIdempotent ==
    op = "normalize_surface" =>
        /\ ret[1] \in Surfaces
        /\ \A w \in SurfaceWords, c \in LetterCases :
              \A before \in Paddings, after \in Paddings :
                 args[1] = Padded(w, c, before, after) =>
                    ret[1] = IF w \in DOMAIN CanonicalOf THEN CanonicalOf[w]
                             ELSE S_hard
        /\ normalize_surface(ret[1]) = ret[1]
        /\ normalize_surface(normalize_surface(args[1])) = normalize_surface(args[1])

\* "CARPET" after a tab and a space and before a newline was normalized to
\* indoor_hard
C22_Witness ==
    /\ op = "normalize_surface"
    /\ args = << Padded(S_carpet, "upper", << "\t", " " >>, << "\n" >>) >>
    /\ args[1][3] = "C" /\ Len(args[1]) = 9
    /\ ret = << S_indoor_hard >>

(***************************************************************************)
(* Rejected rows and participants' state, checked under SpecIngest         *)
(***************************************************************************)
\* the number of rows of the sources of the list that exist
RECURSIVE RowsRead(_)
RowsRead(paths) ==
    IF paths = << >> THEN 0
    ELSE (IF FileSystem[Head(paths)].exists
          THEN Len(FileSystem[Head(paths)].rows) ELSE 0) + RowsRead(Tail(paths))

\* C23: every row that ingestion rejects produces a warning: when
\* ingest_csv_files returns, the rows it read are the rows it accepted and
\* the rows it printed a warning for; no row is dropped silently.
C23_EveryRejectedRowIsWarned ==
    (op = "ingest_csv_files" /\ err = NoError) =>
        Len(SelectSeq(warnings, LAMBDA w : w[1] = "row"))
            = RowsRead(args[1]) - Len(matches)

\* the number of folded matches on the surface the player took part in
MatchesOnSurface(name, surface) ==
    Cardinality({ i \in 1..Len(folded) :
                    /\ folded[i].surface = surface
                    /\ folded[i].winner = name \/ folded[i].loser = name })

\* wins plus losses of a head-to-head map, over the opponents in S
RECURSIVE TallyTotal(_, _)
TallyTotal(h2h, S) ==
    IF S = {} THEN 0
    ELSE LET o == CHOOSE x \in S : TRUE
         IN  h2h[o][1] + h2h[o][2] + TallyTotal(h2h, S \ {o})

\* C24: each folded match changes each participant's state exactly once:
\* for every player p and surface s the recent results of p on s number
\* min(50, accepted matches on s with p as winner or loser), and the wins
\* and losses of p's overall head-to-head tallies, over all opponents, number
\* the accepted matches p appears in.
C24_EachMatchCountedOncePerParticipant ==
    /\ DOMAIN players = FoldedNames
    /\ \A name \in DOMAIN players :
          /\ \A surface \in Surfaces :
                Len(HistoryOf(players, name, surface))
                    = Min(50, MatchesOnSurface(name, surface))
          /\ TallyTotal(players[name].h2h_overall, DOMAIN players[name].h2h_overall)
                = MatchesOf(name)

\* the surface tallies of a player against an opponent, added up
RECURSIVE SurfaceTallySum(_, _, _)
SurfaceTallySum(h2h_surface, other, S) ==
    IF S = {} THEN << 0, 0 >>
    ELSE LET s == CHOOSE x \in S : TRUE
             t == DefaultGet(h2h_surface[s], other, << 0, 0 >>)
             rest == SurfaceTallySum(h2h_surface, other, S \ {s})
         IN  << t[1] + rest[1], t[2] + rest[2] >>

\* C29: the surface head-to-head tallies add up to the overall tally: in
\* every state, for all players A and B, the sum over the surfaces of A's
\* surface record against B, wins and losses each, is A's overall record
\* against B.
C29_SurfaceTalliesSumToOverall ==
    \A a \in DOMAIN players :
       \A b \in DOMAIN players[a].h2h_overall \cup FoldedNames \cup { NameZ } :
          SurfaceTallySum(players[a].h2h_surface, b, DOMAIN players[a].h2h_surface)
              = DefaultGet(players[a].h2h_overall, b, << 0, 0 >>)

\* NameC beat NameB on clay and on grass: one win in each surface tally,
\* two in the overall tally, and the reverse for NameB
C29_Witness ==
    /\ op = "ingest_csv_files" /\ err = NoError
    /\ HasKey(players, NameC) /\ HasKey(players, NameB)
    /\ HasKey(players[NameC].h2h_surface, S_clay)
    /\ HasKey(players[NameC].h2h_surface, S_grass)
    /\ players[NameC].h2h_surface[S_clay][NameB] = << 1, 0 >>
    /\ players[NameC].h2h_surface[S_grass][NameB] = << 1, 0 >>
    /\ players[NameC].h2h_overall[NameB] = << 2, 0 >>
    /\ players[NameB].h2h_overall[NameC] = << 0, 2 >>

(***************************************************************************)
(* match_win_prob between folds, checked under Spec                        *)
(***************************************************************************)
\* C26: with no match folded in between, match_win_prob returns the same
\* value for the same arguments whichever queries are called in between:
\* no step of get_rating, head_to_head, last_n_record, match_win_prob or
\* export_player_snapshot changes the value match_win_prob has for any two
\* players and surface.
C26_WinProbStableBetweenFolds ==
    [][op' \in QueryOps =>
          \A a \in QueryNames, b \in QueryNames, s \in QuerySurfaces :
             match_win_prob(players', a, b, s) = match_win_prob(players, a, b, s)]_vars

(***************************************************************************)
(* Pairings of a round, checked under SpecApp                              *)
(***************************************************************************)
\* the pairings of a bracket of length n that position pos takes part in
PairingsOf(n, pos) == { j \in 1..(n \div 2) : pos = j \/ pos = n + 1 - j }

\* C28: in every round of simulate_tournament with at least two players in
\* the bracket, every position of the bracket takes part in exactly one
\* pairing, so the next bracket holds half the players and a player leaves
\* only by losing a match; for every list of 2 players or more.
C28_EveryPlayerIsPaired ==
    (op = "simulate_tournament" /\ Len(args[1]) >= 2) =>
        \A t \in 1..Len(brackets) :
           \A i \in 1..(Len(brackets[t]) - 1) :
              LET cur == brackets[t][i]
              IN  /\ \A pos \in 1..Len(cur) :
                        Cardinality(PairingsOf(Len(cur), pos)) = 1
                  /\ 2 * Len(brackets[t][i + 1]) = Len(cur)

(***************************************************************************)
(* build_tournament_context, checked under SpecTournament                  *)
(***************************************************************************)
\* the place of entry i among the entries in descending order of surface
\* rating, entries of equal rating in list order
SeedOf(data, i) ==
    Cardinality({ j \in 1..Len(data) : data[j].surface_elo > data[i].surface_elo })
        + Cardinality({ j \in 1..i : data[j].surface_elo = data[i].surface_elo })

\* the entry seeded at place k
Seeded(data, k) == data[CHOOSE i \in 1..Len(data) : SeedOf(data, i) = k]

\* the win probability of the higher seed of pairing j (seeds 2j-1 and 2j)
PairProb(data, j) ==
    match_win_prob(players, Seeded(data, 2 * j - 1).name, Seeded(data, 2 * j).name,
                   args[2])

\* that probability is below 0.65: the rating of the higher seed, as
\* match_win_prob reads it, is less than 400 * log10(0.65 / 0.35) =
\* 107.538124... rating points above the rating of the lower seed
PairIsClose(data, j) ==
    LET ratings == match_win_prob_ratings(players, Seeded(data, 2 * j - 1).name,
                                          Seeded(data, 2 * j).name, args[2])
    IN  (ratings[1] - ratings[2]) * 100 < 107538125 * (RScale \div 10000)

\* C21: build_tournament_context sorts the players by surface rating
\* descending, pairs adjacent places (an unpaired last player of an odd list
\* is ignored) and reports exactly the pairs whose match_win_prob(higher
\* seed, lower seed) is below 0.65, in pairing order, at most 3 of them (the
\* first three), each with upset_potential = 1 - favorite_prob.
C21_UpsetRisksAreFirstThreeClosePairs ==
    op = "build_tournament_context" =>
        LET data == ret.players
            risks == ret.top_upset_risks
            close == { j \in 1..(Len(data) \div 2) : PairIsClose(data, j) }
        IN  /\ Len(data) = Len(args[1])
            /\ \A i \in 1..Len(data) :
                  /\ data[i].name = args[1][i]
                  /\ data[i].surface_elo = get_rating_ret(players, args[1][i], args[2])
            /\ Len(risks) = Min(3, Cardinality(close))
            /\ \A k \in 1..Len(risks) :
                  LET j == CHOOSE x \in close :
                              Cardinality({ y \in close : y < x }) = k - 1
                  IN  /\ risks[k].favorite = Seeded(data, 2 * j - 1).name
                      /\ risks[k].underdog = Seeded(data, 2 * j).name
                      /\ risks[k].favorite_prob = PairProb(data, j)
                      /\ risks[k].upset_potential = PScale - PairProb(data, j)

\* eight players after seeds.csv: the first pairing (NameA, NameC) is not
\* close and the other three are reported, the last one with the lowest
\* seed as underdog
C21_Witness ==
    /\ op = "build_tournament_context"
    /\ Len(args[1]) = 8 /\ args[3] = 0
    /\ ~PairIsClose(ret.players, 1)
    /\ Seeded(ret.players, 1).name = NameA /\ Seeded(ret.players, 2).name = NameC
    /\ Len(ret.top_upset_risks) = 3
    /\ ret.top_upset_risks[1].favorite = NameZ
    /\ ret.top_upset_risks[3].underdog = NameB
    /\ ret.players[2].name = NameB

RECURSIVE SumOfStrengths(_, _)
SumOfStrengths(data, n) ==
    IF n = 0 THEN 0 ELSE data[n].title_prob[1] + SumOfStrengths(data, n - 1)

\* C25: with simulate = 0 build_tournament_context runs no bracket
\* simulation and draws no random value; each title probability is
\* strength / sum of the strengths of the listed players, with
\* strength = 2 ** (surface rating / 400), so the probabilities sum to 1 and
\* a player with a higher surface rating never has a lower one. With
\* simulate > 0 the title probabilities are those simulate_tournament
\* returns for the list, the surface and the number of iterations: that
\* many folds of the list were run on the values drawn, to one player or
\* none, and the probability of a player is the number of folds that player
\* won, divided by the number of iterations.
C25_TitleProbsQuickOrSimulated ==
    op = "build_tournament_context" =>
        LET data == ret.players
        IN  /\ Len(data) = Len(args[1])
            /\ args[3] = 0 =>
                  /\ brackets = << >>
                  /\ \A i \in 1..Len(data) :
                        /\ data[i].title_prob[1] = strength(data[i].surface_elo)
                        /\ data[i].title_prob[2] = SumOfStrengths(data, Len(data))
                        /\ data[i].title_prob[1] > 0
                        /\ \A j \in 1..Len(data) :
                              data[i].surface_elo > data[j].surface_elo =>
                                 data[i].title_prob[1] >= data[j].title_prob[1]
            /\ args[3] > 0 =>
                  /\ Len(brackets) = args[3]
                  /\ \A t \in 1..Len(brackets) :
                        /\ FoldFollowsDraws(brackets, t, args[1], args[2], args[4])
                        /\ Len(brackets[t][Len(brackets[t])]) <= 1
                  /\ \A i \in 1..Len(data) :
                        data[i].title_prob
                            = << TitlesOf(brackets, args[1][i]), args[3] >>

\* four players after seeds.csv and one simulated fold whose first value
\* lies next to the probability of NameA against NameZ, the comparison
\* ending against NameA: NameZ goes on and NameA ends without a title
C25_Witness ==
    /\ op = "build_tournament_context"
    /\ args[3] = 1 /\ args[1] = Prefix(Entrants, 4)
    /\ args[4][1] = << match_win_prob(players, NameA, NameZ, args[2]) - 1, FALSE >>
    /\ Len(brackets) = 1
    /\ brackets[1][2][1] = NameZ
    /\ ret.players[1].title_prob = << 0, 1 >>
    /\ \E i \in 2..4 : ret.players[i].title_prob = << 1, 1 >>

\* C27: in every upset-risk entry of build_tournament_context the favorite,
\* the player seeded higher by the surface rating of get_rating, has
\* favorite_prob >= 0.5, for any mix of known and unknown players.
C27_FavoriteIsFavored ==
    op = "build_tournament_context" =>
        \A k \in 1..Len(ret.top_upset_risks) :
           ret.top_upset_risks[k].favorite_prob >= PScale \div 2

(***************************************************************************)
(* EloSystem.load_data, checked under SpecSystem                           *)
(***************************************************************************)
\* the exception raised while the sources are read and parsed, or NoError
ReadError(paths) == read_paths(FileSystem, paths, NoRead).exc

\* C30: ingestion is all-or-nothing with respect to uncaught errors: when
\* reading or parsing the sources raises, the call changes no player,
\* rating, history entry, head-to-head tally, stored match list or max
\* date, and EloSystem.load_data returns False with its loaded flag and its
\* player-list cache as they were; otherwise load_data returns True, sets
\* the flag and resets the cache.
C30_FailedLoadChangesNothing ==
    [][op' = "load_data" =>
          IF ReadError(args'[1]) # NoError
          THEN /\ ret' = << FALSE >>
               /\ players' = players
               /\ matches' = matches
               /\ max_date' = max_date
               /\ folded' = folded
               /\ loaded' = loaded
               /\ players_cache' = players_cache
          ELSE /\ ret' = << TRUE >>
               /\ loaded' = TRUE
               /\ players_cache' = None]_vars

\* after a load and a player list, a load of a good file followed by a file
\* with a short row failed: the three players, the flag and the cached list
\* are as they were
C30_Witness ==
    /\ op = "load_data"
    /\ args = << << "atp_2023.csv", "short.csv" >> >>
    /\ ret = << FALSE >>
    /\ loaded = TRUE
    /\ players_cache = << NameC, NameB, NameA >>
    /\ Len(folded) = 3
    /\ warnings # << >>

====
